---- MODULE Spec2Model ----
(***************************************************************************)
(* State-machine model of the MCP gateway core: the policy engine          *)
(* (core/policy.ts), the audit logger (core/audit.ts) and the invocation   *)
(* pipeline MCPGateway.invokeTool (core/mcp.ts).                           *)
(*                                                                         *)
(* JavaScript strings whose characters matter (argument values, allowlist  *)
(* entries, handler results) are sequences of one-character strings.       *)
(* Names that are only compared as a whole (tool names, argument keys,     *)
(* error codes) are TLA+ strings.                                          *)
(***************************************************************************)
EXTENDS Integers, Sequences, FiniteSets, Bags, TLC

VARIABLES
    config,     \* GatewayConfig given to the MCPGateway constructor (immutable)
    tools,      \* MCPGateway.tools: registered tools, in insertion order
    inv,        \* one record per invokeTool call (its locals, promise, timer)
    auditLog,   \* the [audit] stream: events in the order writeEvent emitted them
    nextId,     \* source of fresh request ids (randomUUID)
    decision,   \* last call of a component on its own and what it returned
    world       \* what lies outside the process: the file system and what was
                \* read from it, the requests and the queries sent

vars == <<config, tools, inv, auditLog, nextId, decision, world>>

----------------------------------------------------------------------------
(* Bounds of the model *)

\* number of invokeTool calls that may be in flight together
NumInv == 2
\* longest string a handler returns, in characters
MaxResultLen == 2
\* most argument keys in an argument map given to checkPolicy directly
MaxArgKeys == 2

Inv == 1..NumInv

----------------------------------------------------------------------------
(* JavaScript values *)

StrVal(s) == [t |-> "str", v |-> s]
NumVal(s) == [t |-> "num", v |-> s]

\* value !== allowedValue is false: same type and same value
StrictEq(a, b) == a.t = b.t /\ a.v = b.v

S_slashA == <<"/", "a">>
S_hex == <<"h", "e", "x">>
S_utf8 == <<"u", "t", "f", "8">>
S_utf_8 == <<"u", "t", "f", "-", "8">>
S_base64 == <<"b", "a", "s", "e", "6", "4">>
S_x == <<"x">>
S_one == <<"1">>

(* An argument map is a JavaScript object: key/value pairs in insertion order,
   keys distinct. *)
Arg(k, val) == [k |-> k, val |-> val]
ArgKeysOf(args) == {args[n].k : n \in 1..Len(args)}
HasKey(args, k) == \E n \in 1..Len(args) : args[n].k = k
GetArg(args, k) == args[CHOOSE n \in 1..Len(args) : args[n].k = k].val

----------------------------------------------------------------------------
(* Policy engine (core/policy.ts) *)

(* The value side of arg_allowlist: a boolean, a number, a string or an array
   of strings (items). *)
EntryBool(b) == [t |-> "bool", v |-> IF b THEN <<"t">> ELSE <<"f">>, items |-> {}]
EntryStr(s) == [t |-> "str", v |-> s, items |-> {}]
EntryNum(s) == [t |-> "num", v |-> s, items |-> {}]
EntryList(S) == [t |-> "list", v |-> <<>>, items |-> S]

RegexPrefix == <<"r", "e", "g", "e", "x", ":">>

\* String.prototype.startsWith
StartsWith(s, p) == Len(s) >= Len(p) /\ SubSeq(s, 1, Len(p)) = p

(* new RegExp(pattern).test(value) for patterns made of literal characters
   with an optional leading ^ and an optional trailing $: an unanchored
   search for the literal body. *)
RegexTest(pattern, value) ==
    LET atStart == Len(pattern) >= 1 /\ pattern[1] = "^"
        p1 == IF atStart THEN SubSeq(pattern, 2, Len(pattern)) ELSE pattern
        atEnd == Len(p1) >= 1 /\ p1[Len(p1)] = "$"
        body == IF atEnd THEN SubSeq(p1, 1, Len(p1) - 1) ELSE p1
    IN \E p \in 1..(Len(value) - Len(body) + 1) :
          /\ SubSeq(value, p, p + Len(body) - 1) = body
          /\ (atStart => p = 1)
          /\ (atEnd => p + Len(body) - 1 = Len(value))

\* the test of one supplied value against its allowlist entry
ValueAllowed(value, allowedValue) ==
    IF allowedValue.t = "bool" /\ allowedValue.v = <<"t">> THEN TRUE
    ELSE IF allowedValue.t = "list"
        THEN value.t = "str" /\ value.v \in allowedValue.items
    ELSE IF allowedValue.t = "str" /\ StartsWith(allowedValue.v, RegexPrefix)
        THEN /\ value.t = "str"
             /\ RegexTest(SubSeq(allowedValue.v, Len(RegexPrefix) + 1,
                                 Len(allowedValue.v)), value.v)
    ELSE StrictEq(value, allowedValue)

RECURSIVE checkArgAllowlistFrom(_, _, _)
checkArgAllowlistFrom(args, allowlist, n) ==
    IF n > Len(args) THEN [allowed |-> TRUE, reason |-> "Arguments match allowlist"]
    ELSE IF args[n].k \notin DOMAIN allowlist
        THEN [allowed |-> FALSE,
              reason |-> "Argument " \o args[n].k \o " is not in arg_allowlist"]
    ELSE IF ~ValueAllowed(args[n].val, allowlist[args[n].k])
        THEN [allowed |-> FALSE,
              reason |-> "Argument " \o args[n].k \o " value not allowed"]
    ELSE checkArgAllowlistFrom(args, allowlist, n + 1)

\* checkArgAllowlist with the test for keys missing from the allowlist left out
checkArgAllowlist_SkipUnknownKeys(args, allowlist) ==
    checkArgAllowlistFrom(
        SelectSeq(args, LAMBDA a : a.k \in DOMAIN allowlist), allowlist, 1)

\* PolicyEngine.checkArgAllowlist: the for loop over Object.entries(args)
checkArgAllowlist(args, allowlist) == checkArgAllowlistFrom(args, allowlist, 1)

Unset == [set |-> FALSE, v |-> 0]
SetTo(n) == [set |-> TRUE, v |-> n]

(* ToolPolicy: allow is "true", "false" or "unset" (undefined); timeout_ms,
   max_bytes and arg_allowlist are optional. *)
ToolPolicy(allow, timeout, maxBytes, hasList, list) ==
    [allow |-> allow, timeout_ms |-> timeout, max_bytes |-> maxBytes,
     has_allowlist |-> hasList, arg_allowlist |-> list]

\* toolPolicy.timeout_ms ?? global, toolPolicy.max_bytes ?? global
getEffectivePolicy(pol, tool) ==
    LET has == tool \in DOMAIN pol.per_tool
        tp == IF has THEN pol.per_tool[tool]
              ELSE ToolPolicy("unset", Unset, Unset, FALSE, <<>>)
    IN [timeoutMs |-> IF tp.timeout_ms.set THEN tp.timeout_ms.v
                      ELSE pol.global_timeout_ms,
        maxBytes |-> IF tp.max_bytes.set THEN tp.max_bytes.v
                     ELSE pol.global_max_bytes]

PolicyDecision(allowed, reason, eff) ==
    [allowed |-> allowed, reason |-> reason, effectivePolicy |-> eff]

\* checkPolicy with the deny_tools test moved behind the per_tool branch
checkPolicy_DenyListLate(pol, tool, args) ==
    LET eff == getEffectivePolicy(pol, tool)
        hasTp == tool \in DOMAIN pol.per_tool
        tp == pol.per_tool[tool]
        argCheck == checkArgAllowlist(args, tp.arg_allowlist)
    IN IF hasTp /\ tp.allow = "false"
           THEN PolicyDecision(FALSE, "explicitly denied in per_tool policy", eff)
       ELSE IF hasTp /\ tp.has_allowlist /\ ~argCheck.allowed
           THEN PolicyDecision(FALSE, argCheck.reason, eff)
       ELSE IF hasTp /\ tp.allow = "true"
           THEN PolicyDecision(TRUE, "Allowed by per_tool policy", eff)
       ELSE IF tool \in pol.deny_tools
           THEN PolicyDecision(FALSE, "in deny_tools list", eff)
       ELSE IF tool \in pol.allow_tools
           THEN PolicyDecision(TRUE, "in allow_tools list", eff)
       ELSE IF pol.default_deny
           THEN PolicyDecision(FALSE, "not in allow_tools and default_deny is enabled", eff)
       ELSE PolicyDecision(TRUE, "Allowed by default (default_deny is false)", eff)

\* checkPolicy with the allow_tools test moved before the per_tool branch
checkPolicy_AllowListEarly(pol, tool, args) ==
    LET eff == getEffectivePolicy(pol, tool)
        hasTp == tool \in DOMAIN pol.per_tool
        tp == pol.per_tool[tool]
        argCheck == checkArgAllowlist(args, tp.arg_allowlist)
    IN IF tool \in pol.deny_tools
           THEN PolicyDecision(FALSE, "in deny_tools list", eff)
       ELSE IF tool \in pol.allow_tools
           THEN PolicyDecision(TRUE, "in allow_tools list", eff)
       ELSE IF hasTp /\ tp.allow = "false"
           THEN PolicyDecision(FALSE, "explicitly denied in per_tool policy", eff)
       ELSE IF hasTp /\ tp.has_allowlist /\ ~argCheck.allowed
           THEN PolicyDecision(FALSE, argCheck.reason, eff)
       ELSE IF hasTp /\ tp.allow = "true"
           THEN PolicyDecision(TRUE, "Allowed by per_tool policy", eff)
       ELSE IF pol.default_deny
           THEN PolicyDecision(FALSE, "not in allow_tools and default_deny is enabled", eff)
       ELSE PolicyDecision(TRUE, "Allowed by default (default_deny is false)", eff)

\* PolicyEngine.checkPolicy
checkPolicy(pol, tool, args) ==
    LET eff == getEffectivePolicy(pol, tool)
        hasTp == tool \in DOMAIN pol.per_tool
        tp == pol.per_tool[tool]
        argCheck == checkArgAllowlist(args, tp.arg_allowlist)
    IN IF tool \in pol.deny_tools
           THEN PolicyDecision(FALSE, "in deny_tools list", eff)
       ELSE IF hasTp /\ tp.allow = "false"
           THEN PolicyDecision(FALSE, "explicitly denied in per_tool policy", eff)
       ELSE IF hasTp /\ tp.has_allowlist /\ ~argCheck.allowed
           THEN PolicyDecision(FALSE, argCheck.reason, eff)
       ELSE IF hasTp /\ tp.allow = "true"
           THEN PolicyDecision(TRUE, "Allowed by per_tool policy", eff)
       ELSE IF tool \in pol.allow_tools
           THEN PolicyDecision(TRUE, "in allow_tools list", eff)
       ELSE IF pol.default_deny
           THEN PolicyDecision(FALSE, "not in allow_tools and default_deny is enabled", eff)
       ELSE PolicyDecision(TRUE, "Allowed by default (default_deny is false)", eff)

----------------------------------------------------------------------------
(* Errors (core/errors.ts) *)

\* what a handler or a pipeline step throws: a GatewayError with a code, an
\* Error that is no GatewayError, or a value that is no Error at all
GatewayErr(code, message) == [cls |-> "gateway", code |-> code, message |-> message]
PlainErr(message) == [cls |-> "error", code |-> "", message |-> message]
NonErr == [cls |-> "nonerror", code |-> "", message |-> ""]

isGatewayError(err) == err.cls = "gateway"

errorToCode(err) ==
    IF isGatewayError(err) THEN err.code
    ELSE IF err.cls = "error" THEN "INTERNAL_ERROR"
    ELSE "UNKNOWN_ERROR"

\* err instanceof Error ? err.message : 'Unknown error'
errorMessage(err) == IF err.cls = "nonerror" THEN "Unknown error" ELSE err.message

----------------------------------------------------------------------------
(* Handler results and their serialized size *)

Undefined == [kind |-> "undefined", chars |-> <<>>]
StrResult(s) == [kind |-> "string", chars |-> s]

\* bytes of one character in UTF-8
Utf8Width(c) == IF c = "é" THEN 2 ELSE 1

RECURSIVE Utf8Len(_)
Utf8Len(s) == IF s = <<>> THEN 0 ELSE Utf8Width(Head(s)) + Utf8Len(Tail(s))

\* JSON.stringify of a string: the characters between two double quotes
JsonStringify(result) == <<"\"">> \o result.chars \o <<"\"">>

\* Buffer.byteLength(JSON.stringify(result), 'utf-8')
JsonByteLength(result) == Utf8Len(JsonStringify(result))

\* enforceMaxBytes measuring the string's length in characters instead of bytes
enforceMaxBytes_CharLength(result, maxBytes) ==
    IF result.kind = "undefined"
        THEN [threw |-> TRUE, err |-> PlainErr("The string argument must be of type string")]
    ELSE IF Len(JsonStringify(result)) > maxBytes
        THEN [threw |-> TRUE,
              err |-> GatewayErr("MAX_BYTES_EXCEEDED", "Response exceeded max bytes")]
    ELSE [threw |-> FALSE, err |-> NonErr]

(* PolicyEngine.enforceMaxBytes: throws MaxBytesExceededError when the size
   is above maxBytes; JSON.stringify(undefined) is undefined and
   Buffer.byteLength throws a TypeError for it. *)
enforceMaxBytes(result, maxBytes) ==
    IF result.kind = "undefined"
        THEN [threw |-> TRUE, err |-> PlainErr("The string argument must be of type string")]
    ELSE IF JsonByteLength(result) > maxBytes
        THEN [threw |-> TRUE,
              err |-> GatewayErr("MAX_BYTES_EXCEEDED", "Response exceeded max bytes")]
    ELSE [threw |-> FALSE, err |-> NonErr]

----------------------------------------------------------------------------
(* Audit logger (core/audit.ts) *)

AuditContext(requestId, tool, actor, args) ==
    [requestId |-> requestId, tool |-> tool, actor |-> actor, args |-> args]

\* JSON.stringify of an argument value: a string in quotes, a number bare
JsonValue(val) ==
    IF val.t = "str" THEN <<"\"">> \o val.v \o <<"\"">> ELSE val.v

\* JSON.stringify of an argument map: the members in insertion order
RECURSIVE JsonMembers(_, _)
JsonMembers(args, n) ==
    IF n > Len(args) THEN <<>>
    ELSE (IF n > 1 THEN <<",">> ELSE <<>>)
            \o <<"\"", args[n].k, "\"", ":">> \o JsonValue(args[n].val)
            \o JsonMembers(args, n + 1)

JsonStringifyArgs(args) == <<"{">> \o JsonMembers(args, 1) \o <<"}">>

\* createHash('sha256').update(str).digest('hex'): equal digests for equal
\* strings, different digests for different strings
Sha256(str) == [sha256 |-> str]

\* AuditLogger.hashArgs
hashArgs(args) == Sha256(JsonStringifyArgs(args))

\* AuditLogger.getResultBytes
getResultBytes(result) ==
    IF result.kind = "undefined" THEN 0 ELSE JsonByteLength(result)

(* AuditLogger.log: the events it hands to writeEvent, none when the logger is
   disabled. error_code is left out of the event when errorCode is falsy
   (undefined or the empty string): has_error_code is FALSE. *)
log(cfg, ctx, dec, reason, result, errorCode) ==
    IF ~cfg.audit.enabled THEN <<>>
    ELSE << [request_id |-> ctx.requestId,
             tool |-> ctx.tool,
             actor |-> ctx.actor,
             args_sha256 |-> hashArgs(ctx.args),
             decision |-> dec,
             reason |-> reason,
             result_bytes |-> getResultBytes(result),
             has_error_code |-> errorCode # "",
             error_code |-> errorCode] >>

logSuccess(cfg, ctx, result) == log(cfg, ctx, "allow", "execution_success", result, "")

logDenied(cfg, ctx, reason) == log(cfg, ctx, "deny", reason, Undefined, "POLICY_DENIED")

\* logError that does not pass the error code on
logError_NoCode(cfg, ctx, errorCode, errorMessage_) ==
    log(cfg, ctx, "allow", "error: " \o errorMessage_, Undefined, "")

logError(cfg, ctx, errorCode, errorMessage_) ==
    log(cfg, ctx, "allow", "error: " \o errorMessage_, Undefined, errorCode)

----------------------------------------------------------------------------
(* Tool input schemas and their parsing *)

\* one field of a z.object shape
Field(k, kind, minLen, options, presence, dflt) ==
    [k |-> k, kind |-> kind, minLen |-> minLen, options |-> options,
     presence |-> presence, dflt |-> dflt]

\* the input schema of fs.readFile: path is z.string(), encoding an enum with a
\* default
readFileSchema ==
    << Field("path", "string", 0, {}, "required", StrVal(<<>>)),
       Field("encoding", "enum", 0, {S_utf_8, S_utf8, S_base64, S_hex}, "default",
             StrVal(S_utf_8)) >>

ToolNames == {"fs.readFile"}

\* tool.inputSchema of a registered tool
inputSchema(tool) == readFileSchema

\* does the supplied value pass the field's type and constraints
FieldAccepts(f, val) ==
    /\ val.t = "str"
    /\ Len(val.v) >= f.minLen
    /\ (f.kind = "enum" => val.v \in f.options)

(* schema.parse(args) for a z.object: fields are read in shape order; a
   supplied value must pass the field's checks, an absent key takes the
   default if the field has one and is an issue if the field is required;
   keys that are not in the shape are dropped from the output. *)
RECURSIVE ParseFrom(_, _, _)
ParseFrom(schema, args, n) ==
    IF n > Len(schema) THEN [success |-> TRUE, data |-> <<>>, error |-> ""]
    ELSE
        LET f == schema[n]
            rest == ParseFrom(schema, args, n + 1)
            given == HasKey(args, f.k)
            ok == IF given THEN FieldAccepts(f, GetArg(args, f.k))
                  ELSE f.presence # "required"
            out == IF given THEN <<Arg(f.k, GetArg(args, f.k))>>
                   ELSE IF f.presence = "default" THEN <<Arg(f.k, f.dflt)>>
                   ELSE <<>>
        IN IF ok
              THEN [success |-> rest.success,
                    data |-> IF rest.success THEN out \o rest.data ELSE <<>>,
                    error |-> rest.error]
              ELSE [success |-> FALSE, data |-> <<>>,
                    error |-> f.k \o ": invalid" \o
                              (IF rest.error = "" THEN "" ELSE ", " \o rest.error)]

\* MCPGateway.validateArgs
validateArgs(tool, args) == ParseFrom(inputSchema(tool), args, 1)

----------------------------------------------------------------------------
(* Invocation pipeline (core/mcp.ts, MCPGateway.invokeTool) *)

NoReturn ==
    [returned |-> FALSE, success |-> FALSE, hasResult |-> FALSE, result |-> Undefined,
     hasError |-> FALSE, code |-> "", message |-> "", requestId |-> 0]

\* { success: true, result, requestId }
Success(result, requestId) ==
    [returned |-> TRUE, success |-> TRUE, hasResult |-> TRUE, result |-> result,
     hasError |-> FALSE, code |-> "", message |-> "", requestId |-> requestId]

\* a failure value whose request id is left out
Failure_WithoutRequestId(code, message, requestId) ==
    [returned |-> TRUE, success |-> FALSE, hasResult |-> FALSE, result |-> Undefined,
     hasError |-> TRUE, code |-> code, message |-> message, requestId |-> 0]

\* { success: false, error: { code, message }, requestId }
Failure(code, message, requestId) ==
    [returned |-> TRUE, success |-> FALSE, hasResult |-> FALSE, result |-> Undefined,
     hasError |-> TRUE, code |-> code, message |-> message, requestId |-> requestId]

(* The locals of one invokeTool call, the promise and timer that
   executeWithTimeout creates for it, and the steps it has taken so far. *)
IdleSlot ==
    [pc |-> "idle", toolName |-> "", args |-> <<>>, requestId |-> 0,
     found |-> FALSE, validated |-> FALSE, data |-> <<>>,
     policyChecked |-> FALSE, policyArgs |-> <<>>, allowed |-> FALSE,
     envelope |-> [timeoutMs |-> 0, maxBytes |-> 0],
     handler |-> "none", handlerArgs |-> <<>>,
     timer |-> "none", promise |-> "none", settledBy |-> "none",
     ret |-> NoReturn, steps |-> <<>>]

Out(s, events) == [slot |-> s, events |-> events]

CtxOf(cfg, s) == AuditContext(s.requestId, s.toolName, cfg.actor, s.args)

Resolve(result) == [kind |-> "resolve", result |-> result, err |-> NonErr]
Reject(err) == [kind |-> "reject", result |-> Undefined, err |-> err]

\* a catch block that audits gateway errors only
invokeToolCatch_UntypedUnlogged(cfg, s, err) ==
    LET errorCode == errorToCode(err)
        message == errorMessage(err)
        events == IF ~isGatewayError(err) THEN <<>>
                  ELSE IF err.code = "POLICY_DENIED"
                     THEN logDenied(cfg, CtxOf(cfg, s), message)
                     ELSE logError(cfg, CtxOf(cfg, s), errorCode, message)
    IN Out([s EXCEPT !.pc = "done",
                     !.ret = Failure(errorCode, message, s.requestId),
                     !.steps = Append(@, "audit")],
           events)

\* the catch block of invokeTool
invokeToolCatch(cfg, s, err) ==
    LET errorCode == errorToCode(err)
        message == errorMessage(err)
        events == IF isGatewayError(err) /\ err.code = "POLICY_DENIED"
                     THEN logDenied(cfg, CtxOf(cfg, s), message)
                     ELSE logError(cfg, CtxOf(cfg, s), errorCode, message)
    IN Out([s EXCEPT !.pc = "done",
                     !.ret = Failure(errorCode, message, s.requestId),
                     !.steps = Append(@, "audit")],
           events)

\* invokeTool after the await: steps 5 and 6 and the return, or the catch block
invokeToolAfterAwait(cfg, s, outcome) ==
    IF outcome.kind = "reject" THEN invokeToolCatch(cfg, s, outcome.err)
    ELSE LET mb == enforceMaxBytes(outcome.result, s.envelope.maxBytes)
         IN IF mb.threw THEN invokeToolCatch(cfg, s, mb.err)
            ELSE Out([s EXCEPT !.pc = "done",
                               !.ret = Success(outcome.result, s.requestId),
                               !.steps = Append(@, "audit")],
                     logSuccess(cfg, CtxOf(cfg, s), outcome.result))

\* the timer left armed
clearTimeout_Forgotten(timer) == timer

\* clearTimeout(timer): a timer that has not fired yet never fires
clearTimeout(timer) == IF timer = "armed" THEN "cleared" ELSE timer

(* executeWithTimeout, the .then / .catch callbacks of the handler's promise:
   the timer is cleared and the outer promise resolved or rejected, which has
   no effect on a promise that is settled already. The continuation of
   invokeTool runs in the same turn of the event loop. *)
onHandlerSettled(cfg, s, outcome) ==
    LET s1 == [s EXCEPT !.handler = "settled", !.timer = clearTimeout(@)]
    IN IF s.promise = "pending"
          THEN invokeToolAfterAwait(cfg,
                   [s1 EXCEPT !.promise = IF outcome.kind = "resolve"
                                             THEN "fulfilled" ELSE "rejected",
                              !.settledBy = "handler"],
                   outcome)
          ELSE Out(s1, <<>>)

\* executeWithTimeout, the setTimeout callback: reject(new TimeoutError(...))
onTimeout(cfg, s) ==
    LET s1 == [s EXCEPT !.timer = "fired"]
    IN IF s.promise = "pending"
          THEN invokeToolAfterAwait(cfg,
                   [s1 EXCEPT !.promise = "rejected", !.settledBy = "timer"],
                   Reject(GatewayErr("TIMEOUT", "Tool timed out")))
          ELSE Out(s1, <<>>)

\* step 4: executeWithTimeout arms the timer and calls the handler with
\* validation.data
stageExecute(cfg, s, data, effectivePolicy) ==
    Out([s EXCEPT !.pc = "awaiting",
                  !.envelope = effectivePolicy,
                  !.handler = "running",
                  !.handlerArgs = data,
                  !.timer = "armed",
                  !.promise = "pending",
                  !.steps = Append(@, "handler")],
        <<>>)

\* the argument map invokeTool hands to policy.enforce: the caller's args
enforceArgs(args, data) == args

\* step 3 with the verdict ignored: the handler is started whatever it is
stagePolicy_VerdictIgnored(cfg, s, data) ==
    LET pargs == enforceArgs(s.args, data)
        d == checkPolicy(cfg.policy, s.toolName, pargs)
        s1 == [s EXCEPT !.policyChecked = TRUE,
                        !.policyArgs = pargs,
                        !.allowed = d.allowed,
                        !.steps = Append(@, "policy")]
    IN stageExecute(cfg, s1, data, d.effectivePolicy)

\* step 3: policy.enforce throws PolicyDeniedError on a denial
stagePolicy(cfg, s, data) ==
    LET pargs == enforceArgs(s.args, data)
        d == checkPolicy(cfg.policy, s.toolName, pargs)
        s1 == [s EXCEPT !.policyChecked = TRUE,
                        !.policyArgs = pargs,
                        !.allowed = d.allowed,
                        !.steps = Append(@, "policy")]
    IN IF ~d.allowed
          THEN invokeToolCatch(cfg, s1,
                   GatewayErr("POLICY_DENIED", "Policy denied: " \o d.reason))
          ELSE stageExecute(cfg, s1, data, d.effectivePolicy)

\* step 2: validateArgs
stageValidate(cfg, s) ==
    LET validation == validateArgs(s.toolName, s.args)
        s1 == [s EXCEPT !.validated = validation.success,
                        !.data = validation.data,
                        !.steps = Append(@, "validate")]
    IN IF ~validation.success
          THEN Out([s1 EXCEPT !.pc = "done",
                              !.ret = Failure("VALIDATION_ERROR", validation.error,
                                              s.requestId),
                              !.steps = Append(@, "audit")],
                   logDenied(cfg, CtxOf(cfg, s),
                             "Validation failed: " \o validation.error))
          ELSE stagePolicy(cfg, s1, validation.data)

\* a ToolDefinition: its name and the rest of it
Tool(name, description) == [name |-> name, description |-> description]

\* this.tools.has(name); the registry is the Map's entries in insertion order
has(registry, name) == \E n \in 1..Len(registry) : registry[n].name = name

\* step 1: this.tools.get(toolName)
stageLookup(cfg, registry, s) ==
    LET found == has(registry, s.toolName)
        s1 == [s EXCEPT !.found = found, !.steps = Append(@, "lookup")]
    IN IF ~found
          THEN Out([s1 EXCEPT !.pc = "done",
                              !.ret = Failure("TOOL_NOT_FOUND", "Tool not found",
                                              s.requestId),
                              !.steps = Append(@, "audit")],
                   logDenied(cfg, CtxOf(cfg, s), "Tool not found"))
          ELSE stageValidate(cfg, s1)

----------------------------------------------------------------------------
(* Configurations *)

\* createDefaultPolicy, with the limits the gateway tests set
PolicyConfig(defaultDeny, allowTools, denyTools, perTool, maxBytes) ==
    [default_deny |-> defaultDeny, allow_tools |-> allowTools,
     deny_tools |-> denyTools, per_tool |-> perTool,
     global_timeout_ms |-> 30000, global_max_bytes |-> maxBytes]

GatewayConfig(policy, auditEnabled) ==
    [policy |-> policy, audit |-> [enabled |-> auditEnabled], actor |-> "local-user"]

NoPerTool == [t \in {} |-> ToolPolicy("unset", Unset, Unset, FALSE, <<>>)]

\* allow: true with an arg_allowlist and overrides of both limits
ReadFilePolicy ==
    ToolPolicy("true", SetTo(10), SetTo(5), TRUE,
               ("path" :> EntryBool(TRUE)) @@ ("encoding" :> EntryList({S_hex})))

(* The configurations the gateway is constructed with: the tool allowed by
   allow_tools, allowed by a per_tool entry with an arg_allowlist, and listed
   in both deny_tools and allow_tools. *)
HarnessConfigs ==
    { GatewayConfig(PolicyConfig(TRUE, {"fs.readFile"}, {}, NoPerTool, 4), TRUE),
      GatewayConfig(PolicyConfig(TRUE, {}, {}, "fs.readFile" :> ReadFilePolicy, 4), TRUE),
      GatewayConfig(PolicyConfig(FALSE, {"fs.readFile"}, {"fs.readFile"}, NoPerTool, 4),
                    TRUE) }

\* tool names a caller asks for: the registered ones and one that is not
InvocableTools == ToolNames \cup {"unknown.tool"}

\* argument maps a caller sends to invokeTool
HarnessArgs ==
    { <<>>,
      <<Arg("path", StrVal(S_slashA))>>,
      <<Arg("path", StrVal(S_slashA)), Arg("extra", StrVal(S_x))>> }

ResultChars == {"a", "é"}

\* what a handler may return: undefined or a string
HandlerResults ==
    {Undefined} \cup
    {StrResult(s) : s \in UNION {[1..n -> ResultChars] : n \in 0..MaxResultLen}}

\* the codes of the GatewayError classes of core/errors.ts
GatewayCodes ==
    {"POLICY_DENIED", "VALIDATION_ERROR", "TIMEOUT", "CONNECTOR_ERROR",
     "CONFIG_ERROR", "MAX_BYTES_EXCEEDED", "SECURITY_ERROR"}

\* what a handler may throw
HandlerErrors ==
    {GatewayErr(c, "handler error") : c \in GatewayCodes}
        \cup {PlainErr("Handler failed"), NonErr}

HandlerOutcomes ==
    {Resolve(r) : r \in HandlerResults} \cup {Reject(e) : e \in HandlerErrors}

\* nothing read, requested or queried; no symbolic links
NoWorld == [links |-> {}, reads |-> {}, requests |-> <<>>, queries |-> <<>>]

NoDecision ==
    [called |-> FALSE, tool |-> "", args |-> <<>>,
     d |-> PolicyDecision(FALSE, "", [timeoutMs |-> 0, maxBytes |-> 0])]

----------------------------------------------------------------------------
(* The gateway serving invocations *)

\* the registry after the server has registered the connector's tool
RegisteredTools == <<Tool("fs.readFile", "Read the contents of a file")>>

Init ==
    /\ config \in HarnessConfigs
    /\ tools = RegisteredTools
    /\ inv = [i \in Inv |-> IdleSlot]
    /\ auditLog = <<>>
    /\ nextId = 1
    /\ decision = NoDecision
    /\ world = NoWorld

\* a call of invokeTool up to its await (or to its return, when it is refused);
\* calls are numbered in the order they are made
Invoke(i, toolName, args) ==
    /\ inv[i].pc = "idle"
    /\ \A j \in Inv : j < i => inv[j].pc # "idle"
    /\ LET r == stageLookup(config, tools,
                    [IdleSlot EXCEPT !.toolName = toolName, !.args = args,
                                     !.requestId = nextId])
       IN /\ inv' = [inv EXCEPT ![i] = r.slot]
          /\ auditLog' = auditLog \o r.events
    /\ nextId' = nextId + 1
    /\ UNCHANGED <<world, config, tools, decision>>

\* the handler's promise settles, before or after the deadline
HandlerSettle(i, outcome) ==
    /\ inv[i].handler = "running"
    /\ LET r == onHandlerSettled(config, inv[i], outcome)
       IN /\ inv' = [inv EXCEPT ![i] = r.slot]
          /\ auditLog' = auditLog \o r.events
    /\ UNCHANGED <<world, config, tools, nextId, decision>>

\* the deadline timer fires
TimerFire(i) ==
    /\ inv[i].timer = "armed"
    /\ LET r == onTimeout(config, inv[i])
       IN /\ inv' = [inv EXCEPT ![i] = r.slot]
          /\ auditLog' = auditLog \o r.events
    /\ UNCHANGED <<world, config, tools, nextId, decision>>

Next ==
    \/ \E i \in Inv, t \in InvocableTools, a \in HarnessArgs : Invoke(i, t, a)
    \/ \E i \in Inv, o \in HandlerOutcomes : HandlerSettle(i, o)
    \/ \E i \in Inv : TimerFire(i)

Spec == Init /\ [][Next]_vars

----------------------------------------------------------------------------
(* The policy engine on its own: checkPolicy applied to a configuration *)

PolicyTool == "fs.readFile"

\* values a caller may supply for an argument
PolicyArgValues == {StrVal(S_slashA), StrVal(S_hex), NumVal(S_one)}

PolicyArgKeys == {"path", "encoding", "extra"}

\* is the sequence free of repeated elements
Distinct(seq) == \A m, n \in 1..Len(seq) : m # n => seq[m] # seq[n]

\* argument maps of at most MaxArgKeys keys, in every insertion order
PolicyArgs ==
    UNION { { [n \in 1..len |-> Arg(ks[n], vs[n])] :
                ks \in {q \in [1..len -> PolicyArgKeys] : Distinct(q)},
                vs \in [1..len -> PolicyArgValues] } :
            len \in 0..MaxArgKeys }

\* arg_allowlist entries of every form the configuration schema admits
PolicyEntries ==
    { EntryBool(TRUE), EntryBool(FALSE), EntryList({S_hex, S_utf_8}),
      EntryStr(RegexPrefix \o <<"^", "/", "a">>), EntryStr(S_hex), EntryNum(S_one) }

PolicyAllowlists ==
    UNION { [ks -> PolicyEntries] : ks \in SUBSET {"path", "encoding"} }

PolicyToolPolicies ==
    { ToolPolicy(allow, Unset, Unset, FALSE, <<>>) : allow \in {"unset", "true", "false"} }
        \cup
    { ToolPolicy(allow, Unset, Unset, TRUE, al) :
        allow \in {"unset", "true", "false"}, al \in PolicyAllowlists }

PolicyPerTool ==
    {NoPerTool} \cup {PolicyTool :> tp : tp \in PolicyToolPolicies}

PolicyConfigs ==
    { GatewayConfig(PolicyConfig(dd, at, dt, pt, 4), TRUE) :
        dd \in BOOLEAN, at \in SUBSET {PolicyTool}, dt \in SUBSET {PolicyTool},
        pt \in PolicyPerTool }

InitPolicy ==
    /\ config \in PolicyConfigs
    /\ tools = RegisteredTools
    /\ inv = [i \in Inv |-> IdleSlot]
    /\ auditLog = <<>>
    /\ nextId = 1
    /\ decision = NoDecision
    /\ world = NoWorld

\* a call of PolicyEngine.checkPolicy
CheckPolicy(tool, args) ==
    /\ ~decision.called
    /\ decision' = [called |-> TRUE, tool |-> tool, args |-> args,
                    d |-> checkPolicy(config.policy, tool, args)]
    /\ UNCHANGED <<world, config, tools, inv, auditLog, nextId>>

NextPolicy == \E args \in PolicyArgs : CheckPolicy(PolicyTool, args)

SpecPolicy == InitPolicy /\ [][NextPolicy]_vars

----------------------------------------------------------------------------
(* Properties of the invocation pipeline *)

\* the audit events that carry the request id of invocation i
EventsOf(i) == {n \in 1..Len(auditLog) : auditLog[n].request_id = inv[i].requestId}

Started(i) == inv[i].pc # "idle"
Done(i) == inv[i].pc = "done"

(* C1: with audit logging enabled every invokeTool call emits exactly one audit
   event with its request id: none while the call is still awaiting its
   handler, exactly one from the moment it has returned, whatever the outcome
   and however the calls interleave; a handler that settles after the
   deadline adds none, and every event belongs to a call. *)
C1_ExactlyOneAuditEvent ==
    config.audit.enabled =>
        /\ \A i \in Inv :
              /\ inv[i].ret.returned <=> Done(i)
              /\ Done(i) => Cardinality(EventsOf(i)) = 1
              /\ inv[i].pc = "awaiting" => EventsOf(i) = {}
        /\ \A n \in 1..Len(auditLog) :
              \E i \in Inv : Started(i) /\ auditLog[n].request_id = inv[i].requestId

\* one call timed out and its handler settled afterwards, another returned too
C1_Witness ==
    \E i, j \in Inv :
        /\ i # j
        /\ inv[i].settledBy = "timer" /\ inv[i].handler = "settled"
        /\ Cardinality(EventsOf(i)) = 1
        /\ Done(j) /\ Cardinality(EventsOf(j)) = 1

(* C2: an audit event has decision deny if and only if its invocation was
   refused before execution (the handler was never started); every outcome
   reached after the handler was started is recorded with decision allow. *)
C2_DenyIffRefusedBeforeExecution ==
    \A i \in Inv : \A n \in EventsOf(i) :
        Started(i) => (auditLog[n].decision = "deny" <=> inv[i].handler = "none")

(* C3: with audit enabled, the audit event of an invocation has decision allow
   and no error_code if and only if invokeTool returned success for it. *)
C3_AllowWithoutCodeIffSuccess ==
    config.audit.enabled =>
        \A i \in Inv :
            /\ Done(i) => EventsOf(i) # {}
            /\ \A n \in EventsOf(i) :
                  Started(i) =>
                      ((auditLog[n].decision = "allow" /\ ~auditLog[n].has_error_code)
                          <=> inv[i].ret.success)

\* one call returned success, another failed in its execution phase
C3_Witness ==
    \E i, j \in Inv :
        /\ Done(i) /\ inv[i].ret.success
        /\ Done(j) /\ ~inv[j].ret.success /\ inv[j].handler # "none"
        /\ \E n \in EventsOf(j) :
              auditLog[n].decision = "allow" /\ auditLog[n].has_error_code

\* the audit event of a timed-out call: decision allow, error_code TIMEOUT
TimeoutAudited(i) ==
    config.audit.enabled =>
        /\ EventsOf(i) # {}
        /\ \A n \in EventsOf(i) :
              /\ auditLog[n].decision = "allow"
              /\ auditLog[n].has_error_code
              /\ auditLog[n].error_code = "TIMEOUT"

C4_State ==
    \A i \in Inv :
        /\ inv[i].settledBy = "timer" =>
              /\ inv[i].ret.returned /\ ~inv[i].ret.success
              /\ inv[i].ret.code = "TIMEOUT"
              /\ TimeoutAudited(i)
        /\ inv[i].settledBy = "handler" =>
              /\ inv[i].timer = "cleared"
              /\ ~ENABLED TimerFire(i)

C4_Step ==
    \A i \in Inv :
        /\ inv[i].ret.returned => inv'[i].ret = inv[i].ret
        /\ inv[i].settledBy # "none" => inv'[i].settledBy = inv[i].settledBy

(* C4: if the deadline timer fires before the handler settles, invokeTool
   returns failure TIMEOUT with an allow event whose error_code is TIMEOUT, and
   what the handler delivers afterwards never changes the returned value; if
   the handler settles first, the timer is cleared and cannot fire. *)
C4_TimeoutRace == [](C4_State) /\ [][C4_Step]_vars

\* the timer fired first and the handler settled afterwards
C4_Witness ==
    \E i \in Inv :
        /\ inv[i].settledBy = "timer" /\ inv[i].handler = "settled"
        /\ inv[i].ret.code = "TIMEOUT"

C5_State ==
    \A i \in Inv :
        inv[i].ret.success =>
            /\ inv[i].ret.result.kind = "string"
            /\ JsonByteLength(inv[i].ret.result) <= inv[i].envelope.maxBytes

\* the handler of a waiting call resolves with a string
C5_Step ==
    \A i \in Inv : \A o \in HandlerOutcomes :
        ( /\ inv[i].promise = "pending"
          /\ o.kind = "resolve" /\ o.result.kind = "string"
          /\ HandlerSettle(i, o) ) =>
            IF JsonByteLength(o.result) <= inv[i].envelope.maxBytes
                THEN inv'[i].ret = Success(o.result, inv[i].requestId)
                ELSE /\ ~inv'[i].ret.success /\ ~inv'[i].ret.hasResult
                     /\ inv'[i].ret.code = "MAX_BYTES_EXCEEDED"

(* C5: invokeTool returns success only for results whose UTF-8 JSON
   serialization is at most the effective maxBytes: a result of exactly
   maxBytes bytes (or fewer) yields success, a larger one yields failure
   MAX_BYTES_EXCEEDED without the result. *)
C5_MaxBytes == [](C5_State) /\ [][C5_Step]_vars

\* one result of exactly maxBytes bytes returned, one of maxBytes + 1 refused
C5_Witness ==
    \E i, j \in Inv :
        /\ inv[i].ret.success
        /\ JsonByteLength(inv[i].ret.result) = inv[i].envelope.maxBytes
        /\ Utf8Len(inv[i].ret.result.chars) > Len(inv[i].ret.result.chars)
        /\ inv[j].settledBy = "handler" /\ inv[j].ret.code = "MAX_BYTES_EXCEEDED"

StepRank(step) ==
    CASE step = "lookup" -> 1
      [] step = "validate" -> 2
      [] step = "policy" -> 3
      [] step = "handler" -> 4
      [] step = "audit" -> 5

HasStep(i, step) == \E n \in 1..Len(inv[i].steps) : inv[i].steps[n] = step

(* C6: within one invocation the steps happen strictly in the order lookup,
   validation, policy check, handler, audit event; the handler is started only
   after lookup, validation and the policy check all succeeded, and the policy
   engine is consulted only after validation succeeded. *)
C6_PipelineOrder ==
    \A i \in Inv :
        /\ \A m, n \in 1..Len(inv[i].steps) :
              m < n => StepRank(inv[i].steps[m]) < StepRank(inv[i].steps[n])
        /\ Started(i) => inv[i].steps[1] = "lookup"
        /\ Done(i) => inv[i].steps[Len(inv[i].steps)] = "audit"
        /\ (HasStep(i, "handler") <=> inv[i].handler # "none")
        /\ (HasStep(i, "policy") <=> inv[i].policyChecked)
        /\ inv[i].policyChecked =>
              /\ HasStep(i, "validate")
              /\ validateArgs(inv[i].toolName, inv[i].args).success
        /\ inv[i].handler # "none" =>
              /\ HasStep(i, "lookup") /\ HasStep(i, "validate") /\ HasStep(i, "policy")
              /\ has(tools, inv[i].toolName)
              /\ validateArgs(inv[i].toolName, inv[i].args).success
              /\ checkPolicy(config.policy, inv[i].toolName, inv[i].policyArgs).allowed

\* a call that went through all five steps, and one the policy refused
C6_Witness ==
    \E i, j \in Inv :
        /\ inv[i].steps = <<"lookup", "validate", "policy", "handler", "audit">>
        /\ inv[j].steps = <<"lookup", "validate", "policy", "audit">>

(* C10: after validation succeeds the policy check works on the parsed value
   (defaults applied, unknown keys removed), the argument map the handler
   sees: the verdict is the one checkPolicy gives for the parsed value, so a
   key removed by validation causes no denial and a field filled by a default
   is subject to the arg_allowlist. *)
C10_PolicySeesParsedArgs ==
    \A i \in Inv :
        inv[i].policyChecked =>
            (inv[i].allowed <=>
                checkPolicy(config.policy, inv[i].toolName, inv[i].data).allowed)

----------------------------------------------------------------------------
(* Properties of the policy engine *)

Pol == config.policy
HasToolPolicy == decision.tool \in DOMAIN Pol.per_tool
TheToolPolicy == Pol.per_tool[decision.tool]

(* C7: checkPolicy denies every tool that is in deny_tools, whatever
   allow_tools, per_tool.allow, the arg_allowlist and default_deny say. *)
C7_DenyToolsWins ==
    (decision.called /\ decision.tool \in Pol.deny_tools) => ~decision.d.allowed

\* a denied tool that is also in allow_tools, has per_tool.allow = true with a
\* satisfied allowlist, under default_deny = false
C7_Witness ==
    /\ decision.called
    /\ decision.tool \in Pol.deny_tools /\ decision.tool \in Pol.allow_tools
    /\ ~Pol.default_deny
    /\ HasToolPolicy /\ TheToolPolicy.allow = "true" /\ TheToolPolicy.has_allowlist
    /\ decision.args # <<>>
    /\ checkArgAllowlist(decision.args, TheToolPolicy.arg_allowlist).allowed
    /\ ~decision.d.allowed

\* the arg_allowlist of the tool's entry is absent or every supplied argument passes it
AllowlistSatisfied ==
    TheToolPolicy.has_allowlist =>
        \A n \in 1..Len(decision.args) :
            /\ decision.args[n].k \in DOMAIN TheToolPolicy.arg_allowlist
            /\ ValueAllowed(decision.args[n].val,
                            TheToolPolicy.arg_allowlist[decision.args[n].k])

\* the verdict of a tool that has no per_tool entry
GlobalVerdict == decision.tool \in Pol.allow_tools \/ ~Pol.default_deny

(* C8: for a tool not in deny_tools, per_tool.allow = false denies; per_tool
   allow = true with a satisfied or absent arg_allowlist allows; an entry with
   allow unset and a satisfied or absent arg_allowlist gives the verdict of a
   tool without entry (allowed iff in allow_tools or default_deny is false),
   which is also the verdict when there is no entry. *)
C8_DecisionOrder ==
    (decision.called /\ decision.tool \notin Pol.deny_tools) =>
        /\ (HasToolPolicy /\ TheToolPolicy.allow = "false") => ~decision.d.allowed
        /\ (HasToolPolicy /\ TheToolPolicy.allow = "true" /\ AllowlistSatisfied)
              => decision.d.allowed
        /\ (HasToolPolicy /\ TheToolPolicy.allow = "unset" /\ AllowlistSatisfied)
              => (decision.d.allowed <=> GlobalVerdict)
        /\ ~HasToolPolicy => (decision.d.allowed <=> GlobalVerdict)

\* an entry with allow unset and a satisfied allowlist, tool not in allow_tools,
\* default_deny on: the entry does not promote the tool
C8_Witness ==
    /\ decision.called /\ decision.tool \notin Pol.deny_tools
    /\ HasToolPolicy /\ TheToolPolicy.allow = "unset" /\ TheToolPolicy.has_allowlist
    /\ decision.args # <<>> /\ AllowlistSatisfied
    /\ decision.tool \notin Pol.allow_tools /\ Pol.default_deny
    /\ ~decision.d.allowed

\* the rule of an entry as the claim states it
C9_EntryAccepts(entry, value) ==
    CASE entry = EntryBool(TRUE) -> TRUE
      [] entry.t = "list" -> value.t = "str" /\ value.v \in entry.items
      [] entry.t = "str" /\ StartsWith(entry.v, RegexPrefix) ->
            /\ value.t = "str"
            /\ RegexTest(SubSeq(entry.v, Len(RegexPrefix) + 1, Len(entry.v)), value.v)
      [] OTHER -> value.t = entry.t /\ value.v = entry.v

\* a supplied argument without allowlist entry, or whose value breaks its entry
C9_Offending(n) ==
    \/ decision.args[n].k \notin DOMAIN TheToolPolicy.arg_allowlist
    \/ ~C9_EntryAccepts(TheToolPolicy.arg_allowlist[decision.args[n].k],
                        decision.args[n].val)

(* C9: when the tool's per_tool entry (allow not false) has an arg_allowlist and
   the tool is not in deny_tools, checkPolicy denies the call if a supplied
   key has no entry or a supplied value violates its entry; when no supplied
   argument offends, the verdict is that of the entry's allow and the global
   lists, so allowlist keys absent from the arguments never cause denial. *)
C9_ArgAllowlist ==
    ( /\ decision.called /\ decision.tool \notin Pol.deny_tools
      /\ HasToolPolicy /\ TheToolPolicy.allow # "false"
      /\ TheToolPolicy.has_allowlist ) =>
        IF \E n \in 1..Len(decision.args) : C9_Offending(n)
            THEN ~decision.d.allowed
            ELSE decision.d.allowed <=> (TheToolPolicy.allow = "true" \/ GlobalVerdict)

\* a call allowed although the allowlist has a key the arguments lack, with a
\* supplied string accepted by a regex entry
C9_Witness ==
    /\ decision.called /\ decision.d.allowed
    /\ HasToolPolicy /\ TheToolPolicy.has_allowlist
    /\ DOMAIN TheToolPolicy.arg_allowlist = {"path", "encoding"}
    /\ ArgKeysOf(decision.args) = {"path"}
    /\ TheToolPolicy.arg_allowlist["path"] = EntryStr(RegexPrefix \o <<"^", "/", "a">>)

----------------------------------------------------------------------------
(* The configuration schema and the envelope: configurations as
   PolicyConfigSchema accepts them, then checkPolicy and enforce *)

\* largest limit a configuration file is given here
MaxLimit == 2

\* global_timeout_ms: z.number().positive().default(30000)
GlobalTimeoutDefault == 30000
\* global_max_bytes: z.number().positive().default(10 * 1024 * 1024)
GlobalMaxBytesDefault == 10485760

\* z.number().positive().optional()
PositiveOptional(x) == (~x.set) \/ x.v > 0

\* ToolPolicySchema.parse: allow defaults to false, both limits are optional
\* positive numbers
ToolPolicySchema(raw) ==
    [success |-> PositiveOptional(raw.timeout_ms) /\ PositiveOptional(raw.max_bytes),
     data |-> [raw EXCEPT !.allow = IF @ = "unset" THEN "false" ELSE @]]

\* the schema with the limits accepted when they are not negative
PolicyConfigSchema_NonNegative(raw) ==
    LET ok(x) == (~x.set) \/ x.v >= 0
    IN [success |-> /\ ok(raw.global_timeout_ms) /\ ok(raw.global_max_bytes)
                    /\ \A t \in DOMAIN raw.per_tool :
                         ok(raw.per_tool[t].timeout_ms) /\ ok(raw.per_tool[t].max_bytes),
        data |-> [default_deny |-> raw.default_deny,
                  allow_tools |-> raw.allow_tools,
                  deny_tools |-> raw.deny_tools,
                  per_tool |-> [t \in DOMAIN raw.per_tool |->
                                   ToolPolicySchema(raw.per_tool[t]).data],
                  global_timeout_ms |-> IF raw.global_timeout_ms.set
                                           THEN raw.global_timeout_ms.v
                                           ELSE GlobalTimeoutDefault,
                  global_max_bytes |-> IF raw.global_max_bytes.set
                                          THEN raw.global_max_bytes.v
                                          ELSE GlobalMaxBytesDefault]]

\* PolicyConfigSchema.parse of a configuration file's policy section
PolicyConfigSchema(raw) ==
    [success |-> /\ PositiveOptional(raw.global_timeout_ms)
                 /\ PositiveOptional(raw.global_max_bytes)
                 /\ \A t \in DOMAIN raw.per_tool :
                      ToolPolicySchema(raw.per_tool[t]).success,
     data |-> [default_deny |-> raw.default_deny,
               allow_tools |-> raw.allow_tools,
               deny_tools |-> raw.deny_tools,
               per_tool |-> [t \in DOMAIN raw.per_tool |->
                                ToolPolicySchema(raw.per_tool[t]).data],
               global_timeout_ms |-> IF raw.global_timeout_ms.set
                                        THEN raw.global_timeout_ms.v
                                        ELSE GlobalTimeoutDefault,
               global_max_bytes |-> IF raw.global_max_bytes.set
                                       THEN raw.global_max_bytes.v
                                       ELSE GlobalMaxBytesDefault]]

\* PolicyEngine.enforce: the envelope of the decision, or PolicyDeniedError
enforce(pol, tool, args) ==
    LET d == checkPolicy(pol, tool, args)
    IN IF ~d.allowed
          THEN [threw |-> TRUE,
                err |-> GatewayErr("POLICY_DENIED", "Policy denied: " \o d.reason),
                value |-> d.effectivePolicy]
          ELSE [threw |-> FALSE, err |-> NonErr, value |-> d.effectivePolicy]

\* limits as a configuration file may give them
LimitValues == {Unset} \cup {SetTo(n) : n \in -1..MaxLimit}

EnvelopeToolPolicies ==
    { ToolPolicy(allow, t, m, FALSE, <<>>) :
        allow \in {"unset", "true", "false"}, t \in LimitValues, m \in LimitValues }

\* policy sections of configuration files, accepted by the schema or not
RawPolicyConfigs ==
    { [default_deny |-> dd, allow_tools |-> at, deny_tools |-> {},
       per_tool |-> pt, global_timeout_ms |-> gt, global_max_bytes |-> gm] :
        dd \in BOOLEAN, at \in SUBSET {PolicyTool},
        pt \in {NoPerTool} \cup {PolicyTool :> tp : tp \in EnvelopeToolPolicies},
        gt \in LimitValues, gm \in LimitValues }

\* loadConfig: the configurations that pass the schema
LoadedPolicyConfigs ==
    { PolicyConfigSchema(raw).data :
        raw \in {r \in RawPolicyConfigs : PolicyConfigSchema(r).success} }

EnvelopeArgs == { <<>>, <<Arg("path", StrVal(S_slashA))>> }

InitEnvelope ==
    /\ config \in { GatewayConfig(pol, TRUE) : pol \in LoadedPolicyConfigs }
    /\ tools = RegisteredTools
    /\ inv = [i \in Inv |-> IdleSlot]
    /\ auditLog = <<>>
    /\ nextId = 1
    /\ decision = NoDecision
    /\ world = NoWorld

\* a call of PolicyEngine.checkPolicy and of PolicyEngine.enforce with the
\* same tool and arguments
EnforceCall(tool, args) ==
    /\ ~decision.called
    /\ decision' = [called |-> TRUE, tool |-> tool, args |-> args,
                    d |-> checkPolicy(config.policy, tool, args),
                    enforced |-> enforce(config.policy, tool, args)]
    /\ UNCHANGED <<world, config, tools, inv, auditLog, nextId>>

NextEnvelope == \E args \in EnvelopeArgs : EnforceCall(PolicyTool, args)

SpecEnvelope == InitEnvelope /\ [][NextEnvelope]_vars

\* the per-tool value when it is set, the global one otherwise
Override(x, global) == IF x.set THEN x.v ELSE global

\* the envelope the configuration gives the tool of the call
ExpectedEnvelope ==
    [timeoutMs |-> IF HasToolPolicy
                      THEN Override(TheToolPolicy.timeout_ms, Pol.global_timeout_ms)
                      ELSE Pol.global_timeout_ms,
     maxBytes |-> IF HasToolPolicy
                     THEN Override(TheToolPolicy.max_bytes, Pol.global_max_bytes)
                     ELSE Pol.global_max_bytes]

(* C11: the envelope is timeoutMs = per_tool.timeout_ms if set, else
   global_timeout_ms, and maxBytes = per_tool.max_bytes if set, else
   global_max_bytes; checkPolicy returns it on a denial as on an allowance,
   enforce returns exactly it when the call is allowed and throws
   POLICY_DENIED when it is denied, and both values are strictly positive for
   every configuration the schema accepts. *)
C11_Envelope ==
    decision.called =>
        /\ decision.d.effectivePolicy = ExpectedEnvelope
        /\ decision.d.effectivePolicy.timeoutMs > 0
        /\ decision.d.effectivePolicy.maxBytes > 0
        /\ decision.d.allowed =>
              /\ ~decision.enforced.threw
              /\ decision.enforced.value = ExpectedEnvelope
        /\ ~decision.d.allowed =>
              /\ decision.enforced.threw
              /\ isGatewayError(decision.enforced.err)
              /\ errorToCode(decision.enforced.err) = "POLICY_DENIED"

\* an allowed call whose tool overrides max_bytes only: the timeout is the
\* global one and the byte limit the tool's, each different from the other's
C11_Witness ==
    /\ decision.called /\ decision.d.allowed /\ ~decision.enforced.threw
    /\ HasToolPolicy
    /\ TheToolPolicy.max_bytes.set /\ ~TheToolPolicy.timeout_ms.set
    /\ TheToolPolicy.max_bytes.v # Pol.global_max_bytes
    /\ decision.enforced.value.maxBytes = TheToolPolicy.max_bytes.v
    /\ decision.enforced.value.timeoutMs = Pol.global_timeout_ms

----------------------------------------------------------------------------
(* The gateway with the audit logger enabled or disabled *)

\* one policy, audit.enabled true (the schema's default) or false
AuditSwitchConfigs ==
    { GatewayConfig(PolicyConfig(TRUE, {"fs.readFile"}, {}, NoPerTool, 4), en) :
        en \in BOOLEAN }

InitAudit ==
    /\ config \in AuditSwitchConfigs
    /\ tools = RegisteredTools
    /\ inv = [i \in Inv |-> IdleSlot]
    /\ auditLog = <<>>
    /\ nextId = 1
    /\ decision = NoDecision
    /\ world = NoWorld

SpecAudit == InitAudit /\ [][Next]_vars

(* C12: every invokeTool call resolves to a value that is either a success
   with a result and no error, or a failure with an error code and message
   and no result; the value carries the request id of the call, which is the
   request_id of the call's audit event and differs from the id of every
   other call; the id is present also when the audit logger is disabled, and
   then no event is written. *)
C12_ResultShape ==
    /\ \A i \in Inv :
          /\ Started(i) => inv[i].requestId # 0
          /\ inv[i].ret.returned <=> Done(i)
          /\ Done(i) =>
                LET r == inv[i].ret IN
                /\ r.requestId = inv[i].requestId
                /\ r.success => (r.hasResult /\ r.result # Undefined /\ ~r.hasError)
                /\ ~r.success => (r.hasError /\ r.code # "" /\ ~r.hasResult)
                /\ config.audit.enabled =>
                      /\ EventsOf(i) # {}
                      /\ \A n \in 1..Len(auditLog) :
                            n \in EventsOf(i) <=> auditLog[n].request_id = r.requestId
    /\ \A i, j \in Inv : (i # j /\ Started(i) /\ Started(j)) =>
                              inv[i].requestId # inv[j].requestId
    /\ ~config.audit.enabled => auditLog = <<>>

\* with the logger disabled, one call succeeded and another failed, each with
\* its own request id
C12_Witness ==
    /\ ~config.audit.enabled
    /\ \E i, j \in Inv :
          /\ Done(i) /\ inv[i].ret.success /\ inv[i].ret.requestId # 0
          /\ Done(j) /\ ~inv[j].ret.success /\ inv[j].ret.requestId # 0
          /\ inv[i].ret.requestId # inv[j].ret.requestId

----------------------------------------------------------------------------
(* The audit logger on its own: contexts created and logged *)

\* argument maps over two keys, in every insertion order
HashArgs ==
    UNION { { [n \in 1..len |-> Arg(ks[n], vs[n])] :
                ks \in {q \in [1..len -> {"path", "encoding"}] : Distinct(q)},
                vs \in [1..len -> {StrVal(S_slashA), StrVal(S_one), NumVal(S_one)}] } :
            len \in 0..MaxArgKeys }

InitHash ==
    /\ config \in { GatewayConfig(PolicyConfig(TRUE, {}, {}, NoPerTool, 4), TRUE) }
    /\ tools = RegisteredTools
    /\ inv = [i \in Inv |-> IdleSlot]
    /\ auditLog = <<>>
    /\ nextId = 1
    /\ decision = NoDecision
    /\ world = NoWorld

\* createContext(tool, args) followed by log(ctx, 'allow', 'test reason')
LogCall(i, tool, args) ==
    /\ inv[i].pc = "idle"
    /\ \A j \in Inv : j < i => inv[j].pc # "idle"
    /\ LET ctx == AuditContext(nextId, tool, config.actor, args)
       IN /\ inv' = [inv EXCEPT ![i] = [IdleSlot EXCEPT !.pc = "logged",
                                                        !.toolName = tool,
                                                        !.args = args,
                                                        !.requestId = nextId]]
          /\ auditLog' = auditLog \o log(config, ctx, "allow", "test reason",
                                         Undefined, "")
    /\ nextId' = nextId + 1
    /\ UNCHANGED <<world, config, tools, decision>>

NextHash == \E i \in Inv, t \in InvocableTools, a \in HashArgs : LogCall(i, t, a)

SpecHash == InitHash /\ [][NextHash]_vars

\* the same keys with the same values, whatever the insertion order
SameMap(a, b) ==
    {<<a[n].k, a[n].val>> : n \in 1..Len(a)} = {<<b[n].k, b[n].val>> : n \in 1..Len(b)}

(* C13: args_sha256 is a function of the argument value alone: two
   invocations whose arguments are the same map, in any key insertion order,
   have the same args_sha256 whatever their tools, and two invocations with
   different argument maps are hashed from different strings. *)
C13_HashOfArgsAlone ==
    \A i, j \in Inv : \A m \in EventsOf(i), n \in EventsOf(j) :
        (Started(i) /\ Started(j)) =>
            /\ SameMap(inv[i].args, inv[j].args) =>
                  auditLog[m].args_sha256 = auditLog[n].args_sha256
            /\ ~SameMap(inv[i].args, inv[j].args) =>
                  auditLog[m].args_sha256 # auditLog[n].args_sha256

----------------------------------------------------------------------------
(* Error codes returned to the caller *)

\* the codes a caller is to expect
ReturnedCodes ==
    {"TOOL_NOT_FOUND", "VALIDATION_ERROR", "POLICY_DENIED", "SECURITY_ERROR",
     "CONNECTOR_ERROR", "TIMEOUT", "MAX_BYTES_EXCEEDED", "INTERNAL_ERROR"}

\* every failure returned so far carries one of the codes
C14_State ==
    \A i \in Inv : (Done(i) /\ ~inv[i].ret.success) => inv[i].ret.code \in ReturnedCodes

\* a rejection of the handler that makes invokeTool return: a gateway error
\* keeps its code, anything else becomes INTERNAL_ERROR with its message
C14_Step ==
    \A i \in Inv, o \in HandlerOutcomes :
        (HandlerSettle(i, o) /\ o.kind = "reject" /\ inv[i].pc = "awaiting") =>
            /\ inv'[i].ret.returned /\ ~inv'[i].ret.success
            /\ isGatewayError(o.err) => inv'[i].ret.code = o.err.code
            /\ ~isGatewayError(o.err) =>
                  /\ inv'[i].ret.code = "INTERNAL_ERROR"
                  /\ o.err.cls = "error" => inv'[i].ret.message = o.err.message

(* C14: every error code invokeTool returns is one of TOOL_NOT_FOUND,
   VALIDATION_ERROR, POLICY_DENIED, SECURITY_ERROR, CONNECTOR_ERROR, TIMEOUT,
   MAX_BYTES_EXCEEDED, INTERNAL_ERROR; a gateway error thrown by a handler
   keeps its code, and anything else a handler throws, an Error that is no
   gateway error or a value that is no Error, is returned as INTERNAL_ERROR
   with the original message. *)
C14_ErrorCodes == [](C14_State) /\ [][C14_Step]_vars

----------------------------------------------------------------------------
(* The tool registry: registerTool, registerTools, listTools *)

\* longest list handed to registerTools
MaxBatch == 2

\* registerTool that replaces a tool of the same name instead of throwing
registerTool_Overwrite(registry, tool) ==
    [threw |-> FALSE,
     tools |-> IF has(registry, tool.name)
                  THEN [n \in 1..Len(registry) |->
                           IF registry[n].name = tool.name THEN tool ELSE registry[n]]
                  ELSE Append(registry, tool),
     console |-> <<tool.name>>]

(* registerTool: throws when the name is taken, else appends the tool to the
   Map and writes "[mcp] Registered tool: <name>" to the console *)
registerTool(registry, tool) ==
    IF has(registry, tool.name)
       THEN [threw |-> TRUE, tools |-> registry, console |-> <<>>]
       ELSE [threw |-> FALSE, tools |-> Append(registry, tool),
             console |-> <<tool.name>>]

\* registerTools: registerTool for each tool of the list, up to the first throw
RECURSIVE registerToolsFrom(_, _, _)
registerToolsFrom(registry, list, n) ==
    IF n > Len(list) THEN [threw |-> FALSE, tools |-> registry, console |-> <<>>]
    ELSE LET r == registerTool(registry, list[n])
         IN IF r.threw THEN r
            ELSE LET rest == registerToolsFrom(r.tools, list, n + 1)
                 IN [rest EXCEPT !.console = r.console \o @]

registerTools(registry, list) == registerToolsFrom(registry, list, 1)

\* listTools: Array.from(this.tools.keys())
listTools(registry) == [n \in 1..Len(registry) |-> registry[n].name]

RegistryNames == {"test.tool1", "test.tool2", "fs.readFile"}

\* tool definitions: two of each name
RegistryTools == { Tool(n, d) : n \in RegistryNames, d \in {"Tool 1", "Tool 2"} }

RegistryBatches == UNION { [1..len -> RegistryTools] : len \in 0..MaxBatch }

\* the result of the last registry call
Called(op, threw, listed) == [called |-> TRUE, op |-> op, threw |-> threw, listed |-> listed]

InitRegistry ==
    /\ config \in { GatewayConfig(PolicyConfig(TRUE, {}, {}, NoPerTool, 4), TRUE) }
    /\ tools = <<>>
    /\ inv = [i \in Inv |-> IdleSlot]
    /\ auditLog = <<>>
    /\ nextId = 1
    /\ decision = NoDecision
    /\ world = NoWorld

\* gateway.registerTool(tool); auditLog holds the console lines of the
\* registrations
RegisterTool(tool) ==
    /\ LET r == registerTool(tools, tool)
       IN /\ tools' = r.tools
          /\ auditLog' = auditLog \o r.console
          /\ decision' = Called("registerTool", r.threw, <<>>)
    /\ UNCHANGED <<world, config, inv, nextId>>

\* gateway.registerTools(list)
RegisterTools(list) ==
    /\ LET r == registerTools(tools, list)
       IN /\ tools' = r.tools
          /\ auditLog' = auditLog \o r.console
          /\ decision' = Called("registerTools", r.threw, <<>>)
    /\ UNCHANGED <<world, config, inv, nextId>>

\* gateway.listTools()
ListTools ==
    /\ decision' = Called("listTools", FALSE, listTools(tools))
    /\ UNCHANGED <<world, config, tools, inv, auditLog, nextId>>

NextRegistry ==
    \/ \E tool \in RegistryTools : RegisterTool(tool)
    \/ \E list \in RegistryBatches : RegisterTools(list)
    \/ ListTools

SpecRegistry == InitRegistry /\ [][NextRegistry]_vars

\* what listTools returns is the names in the order they were registered,
\* each exactly once
C15_State ==
    (decision.called /\ decision.op = "listTools") =>
        /\ decision.listed = auditLog
        /\ Distinct(decision.listed)

\* a registration of a taken name throws and changes neither the definitions
\* nor their order; a registration of a new name is listed last
C15_Step ==
    /\ \A tool \in RegistryTools :
          RegisterTool(tool) =>
              /\ has(tools, tool.name) => (decision'.threw /\ tools' = tools)
              /\ ~has(tools, tool.name) =>
                    (~decision'.threw /\ listTools(tools') = Append(listTools(tools), tool.name))
    /\ \A list \in RegistryBatches :
          RegisterTools(list) =>
              /\ \A n \in 1..Len(tools) : tools'[n] = tools[n]
              /\ decision'.threw <=>
                    \E n \in 1..Len(list) :
                        \/ has(tools, list[n].name)
                        \/ \E m \in 1..(n - 1) : list[m].name = list[n].name

(* C15: after any sequence of registerTool and registerTools calls, listTools
   returns every successfully registered name exactly once, in the order of
   first successful registration; registering a name that already exists
   throws and leaves the existing tool definition and the listing order
   unchanged. *)
C15_Registry == [](C15_State) /\ [][C15_Step]_vars

\* two tools were registered and listTools gave the two names in the order
\* of their registration
C15_Witness ==
    /\ decision.called /\ decision.op = "listTools"
    /\ Len(decision.listed) = 2
    /\ decision.listed = auditLog
    /\ \E n \in 1..Len(tools) : tools[n].description = "Tool 2"

----------------------------------------------------------------------------
(* Filesystem connector: paths *)

(* Paths are sequences of characters, as the code compares them. *)
P_root == <<"/">>
P_a == <<"/", "a">>
P_ab == <<"/", "a", "b">>
P_b == <<"/", "b">>
P_a_a == <<"/", "a", "/", "a">>
P_a_l == <<"/", "a", "/", "l">>
P_a_up_b == <<"/", "a", "/", ".", ".", "/", "b">>
P_rel_a == <<"a">>

\* process.cwd()
Cwd == P_root

\* the segments between the separators of a path, empty ones included
RECURSIVE SplitFrom(_, _, _)
SplitFrom(p, n, cur) ==
    IF n > Len(p) THEN <<cur>>
    ELSE IF p[n] = "/" THEN <<cur>> \o SplitFrom(p, n + 1, <<>>)
    ELSE SplitFrom(p, n + 1, Append(cur, p[n]))

Segments(p) == SplitFrom(p, 1, <<>>)

\* drop empty and "." segments, let ".." remove the segment before it
RECURSIVE NormalizeSegments(_, _, _)
NormalizeSegments(segs, n, acc) ==
    IF n > Len(segs) THEN acc
    ELSE IF segs[n] = <<>> \/ segs[n] = <<".">>
       THEN NormalizeSegments(segs, n + 1, acc)
    ELSE IF segs[n] = <<".", ".">>
       THEN NormalizeSegments(segs, n + 1,
                IF acc = <<>> THEN acc ELSE SubSeq(acc, 1, Len(acc) - 1))
    ELSE NormalizeSegments(segs, n + 1, Append(acc, segs[n]))

\* the absolute path of a list of segments
RECURSIVE JoinFrom(_, _)
JoinFrom(segs, n) ==
    IF n > Len(segs) THEN <<>> ELSE <<"/">> \o segs[n] \o JoinFrom(segs, n + 1)

JoinAbsolute(segs) == IF segs = <<>> THEN P_root ELSE JoinFrom(segs, 1)

\* path.resolve(p): absolute, without ".", ".." and trailing separators
resolve(p) ==
    LET abs == IF p # <<>> /\ p[1] = "/" THEN p ELSE Cwd \o <<"/">> \o p
    IN JoinAbsolute(NormalizeSegments(Segments(abs), 1, <<>>))

\* path.resolve(dir, name)
resolve2(dir, name) == resolve(dir \o <<"/">> \o name)

\* path.normalize(p) of an absolute path: a trailing separator is kept
normalize(p) ==
    LET q == JoinAbsolute(NormalizeSegments(Segments(p), 1, <<>>))
    IN IF Len(p) > 1 /\ p[Len(p)] = "/" /\ q # P_root THEN q \o <<"/">> ELSE q

\* path.includes('..')
IncludesDotDot(p) == \E n \in 1..(Len(p) - 1) : p[n] = "." /\ p[n + 1] = "."

(* isPathAllowed: the denied paths first, then the allowed ones; each test is
   String.startsWith on the normalized paths. The lists are read as sets: the
   loops only look for one element that matches. *)
isPathAllowed(targetPath, allowedPaths, deniedPaths) ==
    LET normalizedTarget == normalize(resolve(targetPath))
    IN IF \E denied \in deniedPaths :
             StartsWith(normalizedTarget, normalize(resolve(denied)))
          THEN FALSE
       ELSE IF allowedPaths = {} THEN FALSE
       ELSE \E allowed \in allowedPaths :
               StartsWith(normalizedTarget, normalize(resolve(allowed)))

\* validatePath: the normalized path, or SecurityError
validatePath(path, allowedPaths, deniedPaths) ==
    LET normalizedPath == normalize(resolve(path))
    IN IF IncludesDotDot(path) /\ ~isPathAllowed(normalizedPath, allowedPaths, deniedPaths)
          THEN [threw |-> TRUE, value |-> normalizedPath,
                err |-> GatewayErr("SECURITY_ERROR", "Path traversal attempt detected")]
       ELSE IF ~isPathAllowed(normalizedPath, allowedPaths, deniedPaths)
          THEN [threw |-> TRUE, value |-> normalizedPath,
                err |-> GatewayErr("SECURITY_ERROR", "Path not in allowed paths")]
       ELSE [threw |-> FALSE, value |-> normalizedPath, err |-> NonErr]

----------------------------------------------------------------------------
(* Filesystem connector: the file system and the two tools *)

\* max_file_size of the connector's configuration
MaxFileSize == 5
\* listDirSchema: maxDepth defaults to 3
MaxDepthDefault == 3

\* a symbolic link at `at` whose target is `to`
Link(at, to) == [at |-> at, to |-> to]

\* the directories and the regular files of the file system
Directories == {P_root, P_a}
Files == {P_ab, P_b, P_a_a}

\* the segments of a normalized absolute path
SegmentsOf(p) == NormalizeSegments(Segments(p), 1, <<>>)

\* is path t equal to path b or below it, on segment boundaries
Within(t, b) ==
    LET ts == SegmentsOf(t)
        bs == SegmentsOf(b)
    IN Len(bs) <= Len(ts) /\ SubSeq(ts, 1, Len(bs)) = bs

(* The location the operating system reaches for a path: a symbolic link on
   the way is replaced by its target (link targets are real locations). *)
Realpath(p, links) ==
    LET hits == {l \in links : Within(p, l.at)}
    IN IF hits = {} THEN p
       ELSE LET l == CHOOSE h \in hits : TRUE
                rest == SubSeq(SegmentsOf(p), Len(SegmentsOf(l.at)) + 1,
                               Len(SegmentsOf(p)))
            IN JoinAbsolute(SegmentsOf(l.to) \o rest)

\* fs.stat(p): follows symbolic links; /a/a is larger than max_file_size
Stat(p, links) ==
    LET real == Realpath(p, links)
    IN [exists |-> real \in Directories \cup Files,
        real |-> real,
        isFile |-> real \in Files,
        isDirectory |-> real \in Directories,
        size |-> IF real = P_a_a THEN MaxFileSize + 4 ELSE 1]

\* the outcome of a handler: what it threw and the locations it read or listed
FsThrew(err) == [threw |-> TRUE, err |-> err, reads |-> {}, entries |-> {}]
FsReturned(reads, entries) ==
    [threw |-> FALSE, err |-> NonErr, reads |-> reads, entries |-> entries]

\* the handler of fs.readFile
readFileHandler(fs, links, path) ==
    LET v == validatePath(path, fs.allowed_paths, fs.denied_paths)
        stats == Stat(v.value, links)
    IN IF v.threw THEN FsThrew(v.err)
       ELSE IF ~stats.exists
          THEN FsThrew(GatewayErr("CONNECTOR_ERROR", "File not found"))
       ELSE IF stats.size > fs.max_file_size
          THEN FsThrew(GatewayErr("SECURITY_ERROR", "File size exceeds max allowed"))
       ELSE IF ~stats.isFile
          THEN FsThrew(GatewayErr("CONNECTOR_ERROR", "Path is not a file"))
       ELSE FsReturned({stats.real}, {})

(* readdir(dirPath, {withFileTypes: true}): the names in the directory the
   path leads to, each with its own type (a symbolic link is neither a file
   nor a directory). *)
Readdir(dirPath, links) ==
    LET realDir == Realpath(dirPath, links)
        child(q) == /\ SegmentsOf(q) # <<>>
                    /\ SubSeq(SegmentsOf(q), 1, Len(SegmentsOf(q)) - 1) = SegmentsOf(realDir)
        name(q) == SegmentsOf(q)[Len(SegmentsOf(q))]
    IN { [name |-> name(q), isFile |-> TRUE, isDirectory |-> FALSE] :
           q \in {f \in Files : child(f)} }
       \cup
       { [name |-> name(q), isFile |-> FALSE, isDirectory |-> TRUE] :
           q \in {d \in Directories : child(d)} }
       \cup
       { [name |-> name(l.at), isFile |-> FALSE, isDirectory |-> FALSE] :
           l \in {k \in links : child(k.at)} }

(* listDirectory: the entries that pass isPathAllowed, and below the
   directories among them when recursive and currentDepth < maxDepth; reads
   are the directories handed to readdir and the files handed to stat. *)
RECURSIVE listDirectory(_, _, _, _, _, _)
listDirectory(dirPath, recursive, maxDepth, currentDepth, fs, links) ==
    LET kept == { e \in Readdir(dirPath, links) :
                    /\ isPathAllowed(resolve2(dirPath, e.name),
                                     fs.allowed_paths, fs.denied_paths)
                    /\ (e.isFile \/ e.isDirectory) }
        below == IF recursive /\ currentDepth < maxDepth
                    THEN { listDirectory(resolve2(dirPath, e.name), recursive, maxDepth,
                                         currentDepth + 1, fs, links) :
                             e \in {k \in kept : k.isDirectory} }
                    ELSE {}
    IN [entries |-> {resolve2(dirPath, e.name) : e \in kept}
                        \cup UNION {b.entries : b \in below},
        reads |-> {Realpath(dirPath, links)}
                      \cup {Stat(resolve2(dirPath, e.name), links).real :
                              e \in {k \in kept : k.isFile}}
                      \cup UNION {b.reads : b \in below}]

\* the handler of fs.listDir
listDirHandler(fs, links, path, recursive, maxDepth) ==
    LET v == validatePath(path, fs.allowed_paths, fs.denied_paths)
        stats == Stat(v.value, links)
    IN IF v.threw THEN FsThrew(v.err)
       ELSE IF ~stats.exists
          THEN FsThrew(GatewayErr("CONNECTOR_ERROR", "Directory not found"))
       ELSE IF ~stats.isDirectory
          THEN FsThrew(GatewayErr("CONNECTOR_ERROR", "Path is not a directory"))
       ELSE LET l == listDirectory(v.value, recursive, maxDepth, 0, fs, links)
            IN FsReturned(l.reads, l.entries)

\* a gateway configuration with the filesystem connector enabled
FsGatewayConfig(allowedPaths, deniedPaths) ==
    [policy |-> PolicyConfig(TRUE, {"fs.readFile", "fs.listDir"}, {}, NoPerTool, 4),
     audit |-> [enabled |-> TRUE], actor |-> "local-user",
     connectors |-> [filesystem |-> [enabled |-> TRUE,
                                     allowed_paths |-> allowedPaths,
                                     denied_paths |-> deniedPaths,
                                     max_file_size |-> MaxFileSize]]]

FsConfigs ==
    { FsGatewayConfig(al, de) :
        al \in SUBSET {P_a, P_ab} \cup {{P_root}}, de \in SUBSET {P_a, P_a_a} }

\* the file system without symbolic links, and with /a/l pointing to /b
FsWorlds == { [NoWorld EXCEPT !.links = ls] : ls \in {{}, {Link(P_a_l, P_b)}} }

\* paths a caller sends
FsInputPaths == {P_root, P_a, P_ab, P_b, P_a_a, P_a_l, P_a_up_b, P_rel_a}

InitFs ==
    /\ config \in FsConfigs
    /\ tools = <<Tool("fs.readFile", "Read the contents of a file"),
                 Tool("fs.listDir", "List contents of a directory")>>
    /\ inv = [i \in Inv |-> IdleSlot]
    /\ auditLog = <<>>
    /\ nextId = 1
    /\ decision = NoDecision
    /\ world \in FsWorlds

\* what a call of a filesystem handler leaves behind
FsCalled(op, path, fs, r) ==
    [called |-> TRUE, op |-> op, path |-> path, recursive |-> FALSE, maxDepth |-> 0,
     accepted |-> ~validatePath(path, fs.allowed_paths, fs.denied_paths).threw,
     threw |-> r.threw, err |-> r.err, reads |-> r.reads, entries |-> r.entries]

\* the handler of fs.readFile runs
ReadFile(path) ==
    /\ LET r == readFileHandler(config.connectors.filesystem, world.links, path)
       IN /\ decision' = FsCalled("fs.readFile", path, config.connectors.filesystem, r)
          /\ world' = [world EXCEPT !.reads = @ \cup r.reads]
    /\ UNCHANGED <<config, tools, inv, auditLog, nextId>>

\* the handler of fs.listDir runs
ListDir(path, recursive, maxDepth) ==
    /\ LET r == listDirHandler(config.connectors.filesystem, world.links, path,
                               recursive, maxDepth)
       IN /\ decision' = [FsCalled("fs.listDir", path, config.connectors.filesystem, r)
                             EXCEPT !.recursive = recursive, !.maxDepth = maxDepth]
          /\ world' = [world EXCEPT !.reads = @ \cup r.reads]
    /\ UNCHANGED <<config, tools, inv, auditLog, nextId>>

\* one handler is run once: the paths it may still be given
PendingFsPaths == IF decision.called THEN {} ELSE FsInputPaths

NextFs ==
    \/ \E path \in PendingFsPaths : ReadFile(path)
    \/ \E path \in PendingFsPaths, recursive \in BOOLEAN,
          maxDepth \in {1, 2, MaxDepthDefault} : ListDir(path, recursive, maxDepth)

SpecFs == InitFs /\ [][NextFs]_vars

----------------------------------------------------------------------------
(* Properties of the filesystem connector *)

FsCfg == config.connectors.filesystem

\* equal to or below an allowed path and not equal to or below a denied one,
\* on segment boundaries
Confined(target) ==
    /\ \E allowed \in FsCfg.allowed_paths : Within(target, resolve(allowed))
    /\ ~\E denied \in FsCfg.denied_paths : Within(target, resolve(denied))

(* C16: path confinement decides "equal to or descendant of" on path-segment
   boundaries, not on textual prefix: the target of a call is accepted if and
   only if it equals an allowed path or lies below one after a separator, and
   neither equals a denied path nor lies below one in that sense. *)
C16_SegmentBoundaries ==
    decision.called => (decision.accepted <=> Confined(resolve(decision.path)))

(* C17: fs.readFile and fs.listDir never read or list an object whose real
   location, after ".." segments and symbolic links are resolved, is outside
   every allowed path or inside a denied path; with an empty allowed_paths
   every call is rejected with SECURITY_ERROR. *)
C17_RealLocationConfined ==
    /\ \A real \in world.reads : Confined(real)
    /\ (decision.called /\ FsCfg.allowed_paths = {}) =>
          /\ decision.threw
          /\ errorToCode(decision.err) = "SECURITY_ERROR"

----------------------------------------------------------------------------
(* PostgreSQL connector: validateReadOnlyQuery and the db.query handler *)

(* A SQL text is a sequence of tokens with white space between them: words,
   the quote ', the comment marks --, /* and */, the semicolon and the line
   break. *)
BLOCKED_KEYWORDS ==
    {"INSERT", "UPDATE", "DELETE", "DROP", "ALTER", "CREATE", "TRUNCATE", "GRANT",
     "REVOKE", "EXECUTE", "CALL", "COPY", "LOAD", "SET", "LOCK", "UNLOCK"}

allowedStarts == {"SELECT", "WITH", "EXPLAIN"}

dangerousFunctions ==
    {"PG_READ_FILE", "PG_WRITE_FILE", "PG_FILE_WRITE", "LO_IMPORT", "LO_EXPORT", "COPY"}

\* String.toUpperCase of a token
ToUpperCase(tok) == IF tok = "drop" THEN "DROP" ELSE tok

\* sql.replace(/--.*$/gm, ''): from each -- to the end of its line
RECURSIVE StripLineComments(_, _, _)
StripLineComments(toks, n, inComment) ==
    IF n > Len(toks) THEN <<>>
    ELSE IF toks[n] = "\n" THEN <<"\n">> \o StripLineComments(toks, n + 1, FALSE)
    ELSE IF inComment THEN StripLineComments(toks, n + 1, TRUE)
    ELSE IF toks[n] = "--" THEN StripLineComments(toks, n + 1, TRUE)
    ELSE <<toks[n]>> \o StripLineComments(toks, n + 1, FALSE)

\* .replace(/\/\*[\s\S]*?\*\//g, ''): from each /* to the first */ after it
RECURSIVE StripBlockComments(_, _)
StripBlockComments(toks, n) ==
    IF n > Len(toks) THEN <<>>
    ELSE LET ends == {m \in (n + 1)..Len(toks) : toks[m] = "*/"}
         IN IF toks[n] = "/*" /\ ends # {}
               THEN StripBlockComments(toks,
                        (CHOOSE m \in ends : \A k \in ends : m <= k) + 1)
               ELSE <<toks[n]>> \o StripBlockComments(toks, n + 1)

\* .replace(/\s+/g, ' ').trim(): line breaks become the space between tokens
RECURSIVE NormalizeWhitespace(_, _)
NormalizeWhitespace(toks, n) ==
    IF n > Len(toks) THEN <<>>
    ELSE IF toks[n] = "\n" THEN NormalizeWhitespace(toks, n + 1)
    ELSE <<toks[n]>> \o NormalizeWhitespace(toks, n + 1)

\* the normalizedSql of validateReadOnlyQuery
NormalizeSql(sql) ==
    LET stripped == NormalizeWhitespace(
                        StripBlockComments(StripLineComments(sql, 1, FALSE), 1), 1)
    IN [n \in 1..Len(stripped) |-> ToUpperCase(stripped[n])]

\* split on ';' and keep the parts that are not empty
RECURSIVE SplitStatements(_, _, _)
SplitStatements(toks, n, cur) ==
    IF n > Len(toks) THEN (IF cur = <<>> THEN <<>> ELSE <<cur>>)
    ELSE IF toks[n] = ";"
       THEN (IF cur = <<>> THEN <<>> ELSE <<cur>>) \o SplitStatements(toks, n + 1, <<>>)
    ELSE SplitStatements(toks, n + 1, Append(cur, toks[n]))

\* validateReadOnlyQuery: returns, or throws SecurityError
validateReadOnlyQuery(sql) ==
    LET normalizedSql == NormalizeSql(sql)
        words == {normalizedSql[n] : n \in 1..Len(normalizedSql)}
    IN IF Len(SplitStatements(normalizedSql, 1, <<>>)) > 1
          THEN [threw |-> TRUE,
                err |-> GatewayErr("SECURITY_ERROR", "Multiple statements not allowed")]
       ELSE IF words \cap BLOCKED_KEYWORDS # {}
          THEN [threw |-> TRUE,
                err |-> GatewayErr("SECURITY_ERROR", "SQL keyword is not allowed")]
       ELSE IF normalizedSql = <<>> \/ normalizedSql[1] \notin allowedStarts
          THEN [threw |-> TRUE,
                err |-> GatewayErr("SECURITY_ERROR", "Query must start with SELECT")]
       ELSE IF words \cap dangerousFunctions # {}
          THEN [threw |-> TRUE,
                err |-> GatewayErr("SECURITY_ERROR", "Function is not allowed")]
       ELSE [threw |-> FALSE, err |-> NonErr]

(* The text as the database's lexer reads it: a quoted literal is opaque up
   to its closing quote, -- starts a comment up to the end of the line and
   /* a comment, which may contain others, up to its */. The result is the
   tokens outside literals and comments, a literal being one token. *)
RECURSIVE DbLex(_, _, _, _)
DbLex(toks, n, mode, depth) ==
    IF n > Len(toks) THEN [ok |-> mode \in {"sql", "line"}, visible |-> <<>>]
    ELSE LET tok == toks[n]
             skip(m, d) == DbLex(toks, n + 1, m, d)
             emit(t, m) == LET r == DbLex(toks, n + 1, m, 0)
                           IN [r EXCEPT !.visible = <<t>> \o @]
         IN IF mode = "string"
               THEN (IF tok = "'" THEN skip("sql", 0) ELSE skip("string", 0))
            ELSE IF mode = "line"
               THEN (IF tok = "\n" THEN skip("sql", 0) ELSE skip("line", 0))
            ELSE IF mode = "block"
               THEN (IF tok = "/*" THEN skip("block", depth + 1)
                     ELSE IF tok = "*/"
                        THEN (IF depth = 1 THEN skip("sql", 0)
                              ELSE skip("block", depth - 1))
                     ELSE skip("block", depth))
            ELSE IF tok = "'" THEN emit("literal", "string")
            ELSE IF tok = "--" THEN skip("line", 0)
            ELSE IF tok = "/*" THEN skip("block", 1)
            ELSE IF tok = "\n" THEN skip("sql", 0)
            ELSE emit(ToUpperCase(tok), "sql")

DbRead(sql) == DbLex(sql, 1, "sql", 0)

\* client.query(`SET statement_timeout = ...`) of the handler itself
SetStatementTimeout == <<"SET", "statement_timeout">>

\* the handler of db.query: the queries it sends, or the error it throws
queryHandler(sql) ==
    LET v == validateReadOnlyQuery(sql)
    IN IF v.threw THEN [threw |-> TRUE, err |-> v.err, sent |-> <<>>]
       ELSE [threw |-> FALSE, err |-> NonErr, sent |-> <<SetStatementTimeout, sql>>]

\* longest SQL text after its first token
MaxSqlTail == 4

SqlTokens == {"SELECT", "drop", "'", "--", "/*", "*/", ";", "\n"}

\* SQL texts a caller sends
SqlTexts ==
    { <<h>> \o t : h \in {"SELECT", "drop"},
                   t \in UNION {[1..n -> SqlTokens] : n \in 0..MaxSqlTail} }

InitSql ==
    /\ config \in { GatewayConfig(PolicyConfig(TRUE, {"db.query"}, {}, NoPerTool, 4), TRUE) }
    /\ tools = <<Tool("db.query", "Execute a read-only SQL query")>>
    /\ inv = [i \in Inv |-> IdleSlot]
    /\ auditLog = <<>>
    /\ nextId = 1
    /\ decision = NoDecision
    /\ world = NoWorld

\* the handler of db.query runs
Query(sql) ==
    /\ ~decision.called
    /\ LET r == queryHandler(sql)
       IN /\ decision' = [called |-> TRUE, op |-> "db.query", sql |-> sql,
                          threw |-> r.threw, err |-> r.err]
          /\ world' = [world EXCEPT !.queries = @ \o r.sent]
    /\ UNCHANGED <<config, tools, inv, auditLog, nextId>>

\* the handler is run once: the texts it may still be given
PendingSqlTexts == IF decision.called THEN {} ELSE SqlTexts

NextSql == \E sql \in PendingSqlTexts : Query(sql)

SpecSql == InitSql /\ [][NextSql]_vars

(* C18: every SQL text the verifier accepts is the text sent verbatim to the
   database, and as the database reads it, literals opaque and comments
   ignored, it is a single statement without a blocklisted keyword as a whole
   word: the verifier's comment stripping hides no second statement and no
   keyword. *)
C18_AcceptedSqlIsReadOnly ==
    (decision.called /\ ~decision.threw) =>
        /\ world.queries # <<>>
        /\ world.queries[Len(world.queries)] = decision.sql
        /\ DbRead(decision.sql).ok =>
              LET visible == DbRead(decision.sql).visible
              IN /\ Len(SplitStatements(visible, 1, <<>>)) <= 1
                 /\ {visible[n] : n \in 1..Len(visible)} \cap BLOCKED_KEYWORDS = {}

----------------------------------------------------------------------------
(* HTTP fetch connector: validateUrl, isDomainAllowed and the web.fetch
   handler *)

(* A host is the sequence of its labels, the parts between the dots; an IPv6
   address is one label. A URL is its scheme, the host as it is written, and
   whether new URL() accepts the text. *)
Url(protocol, kind, host) ==
    [valid |-> TRUE, protocol |-> protocol, kind |-> kind, host |-> host]

\* a text new URL() throws on
InvalidUrl == [valid |-> FALSE, protocol |-> "", kind |-> "", host |-> <<>>]

\* String.toLowerCase of a label
ToLowerCase(label) == IF label = "FOO" THEN "foo" ELSE label

LowerHost(host) == [n \in 1..Len(host) |-> ToLowerCase(host[n])]

\* new URL(url).hostname.toLowerCase(): an IPv6 address is in brackets
Hostname(url) ==
    IF url.kind = "ipv6" THEN <<"[" \o url.host[1] \o "]">> ELSE LowerHost(url.host)

\* hostname.endsWith('.' + domain)
EndsWithDot(hostname, domain) ==
    /\ Len(hostname) > Len(domain)
    /\ domain # <<>>
    /\ SubSeq(hostname, Len(hostname) - Len(domain) + 1, Len(hostname)) = domain

(* isDomainAllowed: the denied domains first, then the allowed ones, where an
   entry *.domain is read as domain. The lists are read as sets: the loops
   only look for one entry that matches. *)
isDomainAllowed(url, allowedDomains, deniedDomains) ==
    LET hostname == Hostname(url)
    IN IF ~url.valid THEN FALSE
       ELSE IF \E denied \in deniedDomains :
                 \/ hostname = LowerHost(denied)
                 \/ EndsWithDot(hostname, LowerHost(denied))
          THEN FALSE
       ELSE IF allowedDomains = {} THEN FALSE
       ELSE \E allowed \in allowedDomains :
               LET normalizedAllowed == LowerHost(allowed)
               IN \/ hostname = normalizedAllowed
                  \/ EndsWithDot(hostname, normalizedAllowed)
                  \/ /\ normalizedAllowed[1] = "*" /\ Len(normalizedAllowed) > 1
                     /\ LET baseDomain == Tail(normalizedAllowed)
                        IN hostname = baseDomain \/ EndsWithDot(hostname, baseDomain)

blockedHosts == { <<"localhost">>, <<"127", "0", "0", "1">>, <<"0", "0", "0", "0">>, <<"::1">> }

\* the second octets (1[6-9]|2\d|3[01]) admits
PrivateSecondOctets ==
    {"16", "17", "18", "19"} \cup
    {"20", "21", "22", "23", "24", "25", "26", "27", "28", "29"} \cup {"30", "31"}

\* blockedPatterns: /^10\./, /^172\.(1[6-9]|2\d|3[01])\./, /^192\.168\./,
\* /^169\.254\./ tested on the hostname
MatchesBlockedPattern(hostname) ==
    \/ Len(hostname) >= 2 /\ hostname[1] = "10"
    \/ Len(hostname) >= 3 /\ hostname[1] = "172" /\ hostname[2] \in PrivateSecondOctets
    \/ Len(hostname) >= 3 /\ hostname[1] = "192" /\ hostname[2] = "168"
    \/ Len(hostname) >= 3 /\ hostname[1] = "169" /\ hostname[2] = "254"

\* validateUrl: the parsed URL, or SecurityError
validateUrl(url, http) ==
    LET hostname == Hostname(url)
        refuse(message) == [threw |-> TRUE, err |-> GatewayErr("SECURITY_ERROR", message)]
    IN IF ~url.valid THEN refuse("Invalid URL")
       ELSE IF url.protocol \notin {"http:", "https:"} THEN refuse("Invalid protocol")
       ELSE IF hostname \in blockedHosts THEN refuse("Access is blocked for security reasons")
       ELSE IF MatchesBlockedPattern(hostname)
          THEN refuse("Access to internal IP ranges is blocked")
       ELSE IF ~isDomainAllowed(url, http.allowed_domains, http.denied_domains)
          THEN refuse("Domain not in allowed list")
       ELSE [threw |-> FALSE, err |-> NonErr]

\* the handler of web.fetch up to its request: the requests it sends
fetchHandler(url, http) ==
    LET v == validateUrl(url, http)
    IN IF v.threw THEN [threw |-> TRUE, err |-> v.err, sent |-> <<>>]
       ELSE [threw |-> FALSE, err |-> NonErr, sent |-> <<url>>]

\* a gateway configuration with the HTTP fetch connector enabled
HttpGatewayConfig(allowedDomains, deniedDomains) ==
    [policy |-> PolicyConfig(TRUE, {"web.fetch"}, {}, NoPerTool, 4),
     audit |-> [enabled |-> TRUE], actor |-> "local-user",
     connectors |-> [http_fetch |-> [enabled |-> TRUE,
                                     allowed_domains |-> allowedDomains,
                                     denied_domains |-> deniedDomains]]]

H_foo == <<"foo", "com">>
H_wild_foo == <<"*", "foo", "com">>

HttpConfigs ==
    { HttpGatewayConfig(al, de) :
        al \in SUBSET {H_foo, H_wild_foo, <<"localhost">>, <<"::1">>, <<"[::1]">>,
                       <<"10", "0", "0", "1">>},
        de \in SUBSET {<<"FOO", "com">>, H_wild_foo} }

\* hosts of the URLs a caller sends
FetchHosts ==
    { H_foo, <<"FOO", "com">>, <<"a", "foo", "com">>, <<"evilfoo", "com">>, <<"com">>,
      <<"localhost">>, <<"127", "0", "0", "1">>, <<"0", "0", "0", "0">>,
      <<"10", "0", "0", "1">>, <<"172", "16", "0", "1">>, <<"172", "31", "0", "1">>,
      <<"172", "32", "0", "1">>, <<"192", "168", "0", "1">>, <<"169", "254", "0", "1">> }

FetchUrls ==
    { Url(p, "name", h) : p \in {"http:", "https:", "ftp:"}, h \in FetchHosts }
        \cup { Url(p, "ipv6", <<"::1">>) : p \in {"http:", "ftp:"} }
        \cup { InvalidUrl }

InitFetch ==
    /\ config \in HttpConfigs
    /\ tools = <<Tool("web.fetch", "Fetch content from a URL")>>
    /\ inv = [i \in Inv |-> IdleSlot]
    /\ auditLog = <<>>
    /\ nextId = 1
    /\ decision = NoDecision
    /\ world = NoWorld

\* the handler of web.fetch runs; isDomainAllowed is recorded with it
Fetch(url) ==
    /\ ~decision.called
    /\ LET http == config.connectors.http_fetch
           r == fetchHandler(url, http)
       IN /\ decision' = [called |-> TRUE, op |-> "web.fetch", url |-> url,
                          threw |-> r.threw, err |-> r.err,
                          domainAllowed |->
                              isDomainAllowed(url, http.allowed_domains,
                                              http.denied_domains)]
          /\ world' = [world EXCEPT !.requests = @ \o r.sent]
    /\ UNCHANGED <<config, tools, inv, auditLog, nextId>>

NextFetch == \E url \in FetchUrls : Fetch(url)

SpecFetch == InitFetch /\ [][NextFetch]_vars

HttpCfg == config.connectors.http_fetch

\* the host of the URL is a loopback or unspecified address, or a dotted quad
\* in a private or link-local range
InternalHost(url) ==
    LET h == LowerHost(url.host)
    IN \/ h \in { <<"localhost">>, <<"127", "0", "0", "1">>, <<"0", "0", "0", "0">>,
                  <<"::1">> }
       \/ /\ Len(h) = 4
          /\ \/ h[1] = "10"
             \/ h[1] = "172" /\ h[2] \in PrivateSecondOctets
             \/ h[1] = "192" /\ h[2] = "168"
             \/ h[1] = "169" /\ h[2] = "254"

(* C19: web.fetch rejects with SECURITY_ERROR, before any request is sent,
   every URL whose host is localhost, 127.0.0.1, 0.0.0.0 or ::1 or a dotted
   quad in 10.0.0.0/8, 172.16.0.0/12, 192.168.0.0/16 or 169.254.0.0/16, also
   when that host is in allowed_domains, and every URL whose scheme is not
   http or https. *)
C19_InternalHostsBlocked ==
    (decision.called /\ decision.url.valid
        /\ (InternalHost(decision.url) \/ decision.url.protocol \notin {"http:", "https:"}))
    => /\ decision.threw
       /\ errorToCode(decision.err) = "SECURITY_ERROR"
       /\ world.requests = <<>>

\* an entry domain or *.domain matches the host domain and the hosts that end
\* in .domain
EntryMatches(hostname, entry) ==
    LET e == LowerHost(entry)
        domain == IF e[1] = "*" THEN Tail(e) ELSE e
    IN hostname = domain \/ EndsWithDot(hostname, domain)

(* C20: isDomainAllowed accepts a hostname if and only if it matches no
   denied entry and at least one allowed entry, where an entry foo.com or
   *.foo.com matches foo.com and the hostnames that end in .foo.com, on a
   label boundary and whatever the case; an empty allowed list accepts
   nothing. *)
C20_DomainMatching ==
    (decision.called /\ decision.url.valid) =>
        (decision.domainAllowed <=>
            /\ ~\E denied \in HttpCfg.denied_domains :
                   EntryMatches(Hostname(decision.url), denied)
            /\ \E allowed \in HttpCfg.allowed_domains :
                   EntryMatches(Hostname(decision.url), allowed))

----------------------------------------------------------------------------
(* The web.fetch handler step by step: the abort timer, the request and the
   redirects fetch follows, the content-length check and the read loop *)

\* most redirects a server answers with before it serves a response
MaxRedirects == 1
\* most body chunks a response is read in
MaxChunks == 2
\* longest body chunk, in bytes
MaxChunkLen == 2
\* last instant of the clock, in milliseconds
MaxClock == 3

\* the content-length header: absent, a number, or a text parseInt reads as NaN
NoHeader == [present |-> FALSE, nan |-> FALSE, n |-> 0]
NumHeader(n) == [present |-> TRUE, nan |-> FALSE, n |-> n]
NanHeader == [present |-> TRUE, nan |-> TRUE, n |-> 0]

\* contentLength && parseInt(contentLength, 10) > config.max_response_bytes
ContentLengthExceeds(contentLength, http) ==
    contentLength.present /\ ~contentLength.nan /\ contentLength.n > http.max_response_bytes

\* the handler before it is called
FetchIdle ==
    [called |-> FALSE, pc |-> "idle", url |-> InvalidUrl, timer |-> "none",
     deadline |-> 0, hops |-> 0, contentLength |-> NoHeader,
     totalSize |-> 0, chunks |-> <<>>, threw |-> FALSE, err |-> NonErr,
     result |-> [url |-> InvalidUrl, size |-> 0]]

\* the network and the clock: the requests sent, the body bytes the reader has
\* handed out, whether the request was aborted, whether the body was cancelled
NetWorld ==
    [links |-> {}, reads |-> {}, requests |-> <<>>, queries |-> <<>>,
     now |-> 0, bodyRead |-> 0, aborted |-> FALSE, cancelled |-> FALSE]

\* the catch block of the handler: SecurityError and MaxBytesExceededError
\* pass, AbortError becomes TimeoutError, the rest ConnectorError
fetchCatch(err) ==
    IF isGatewayError(err) /\ err.code \in {"SECURITY_ERROR", "MAX_BYTES_EXCEEDED"} THEN err
    ELSE IF err.cls = "error" /\ err.message = "AbortError"
        THEN GatewayErr("TIMEOUT", "Tool 'web.fetch' timed out")
    ELSE IF err.cls = "error" THEN GatewayErr("CONNECTOR_ERROR", "Fetch failed")
    ELSE GatewayErr("CONNECTOR_ERROR", "Unknown fetch error")

fetchThrow(frame, err) ==
    [frame EXCEPT !.pc = "done", !.threw = TRUE, !.err = err]

\* the read loop after reader.read() has resolved, with the check of the total
\* replaced by a check of the chunk
readLoop_ChunkOnly(frame, done, len, http) ==
    IF done
    THEN [frame EXCEPT !.pc = "done",
                       !.result = [url |-> frame.url, size |-> frame.totalSize]]
    ELSE IF len > http.max_response_bytes
        THEN fetchThrow([frame EXCEPT !.totalSize = @ + len],
                        fetchCatch(GatewayErr("MAX_BYTES_EXCEEDED", "Response size exceeds maximum")))
    ELSE [frame EXCEPT !.totalSize = @ + len, !.chunks = Append(@, len)]

\* one turn of the read loop after reader.read() has resolved with done or
\* with a chunk of len bytes
readLoop(frame, done, len, http) ==
    IF done
    THEN [frame EXCEPT !.pc = "done",
                       !.result = [url |-> frame.url, size |-> frame.totalSize]]
    ELSE IF frame.totalSize + len > http.max_response_bytes
        THEN fetchThrow([frame EXCEPT !.totalSize = @ + len],
                        fetchCatch(GatewayErr("MAX_BYTES_EXCEEDED", "Response size exceeds maximum")))
    ELSE [frame EXCEPT !.totalSize = @ + len, !.chunks = Append(@, len)]

\* a gateway configuration with the HTTP fetch connector and its two limits
StreamGatewayConfig(timeoutMs, maxResponseBytes) ==
    [policy |-> PolicyConfig(TRUE, {"web.fetch"}, {}, NoPerTool, 4),
     audit |-> [enabled |-> TRUE], actor |-> "local-user",
     connectors |-> [http_fetch |-> [enabled |-> TRUE,
                                     allowed_domains |-> {H_foo},
                                     denied_domains |-> {<<"bad", "foo", "com">>},
                                     max_response_bytes |-> maxResponseBytes,
                                     timeout_ms |-> timeoutMs]]]

StreamConfigs == { StreamGatewayConfig(t, m) : t \in 1..2, m \in 2..3 }

\* the URLs a caller sends and the ones a server redirects to
StreamUrls ==
    { Url("http:", "name", h) :
        h \in {H_foo, <<"a", "foo", "com">>, <<"bad", "foo", "com">>,
               <<"evil", "com">>, <<"127", "0", "0", "1">>} }

InitStream ==
    /\ config \in StreamConfigs
    /\ tools = <<Tool("web.fetch", "Fetch content from a URL")>>
    /\ inv = [i \in Inv |-> IdleSlot]
    /\ auditLog = <<>>
    /\ nextId = 1
    /\ decision = FetchIdle
    /\ world = NetWorld

\* the handler is called: validateUrl, then the timer is set and fetch sends
\* the request
FetchSend(url) ==
    /\ decision.pc = "idle"
    /\ LET v == validateUrl(url, HttpCfg)
       IN IF v.threw
          THEN /\ decision' = fetchThrow([decision EXCEPT !.called = TRUE, !.url = url], v.err)
               /\ world' = world
          ELSE /\ decision' = [decision EXCEPT !.called = TRUE, !.pc = "fetching",
                                               !.url = url, !.timer = "set",
                                               !.deadline = world.now + HttpCfg.timeout_ms]
               /\ world' = [world EXCEPT !.requests = Append(@, url)]
    /\ UNCHANGED <<config, tools, inv, auditLog, nextId>>

\* the server answers with a redirect and fetch, with redirect: 'follow',
\* sends the request to the target
FetchRedirect(target) ==
    /\ decision.pc = "fetching"
    /\ decision.hops < MaxRedirects
    /\ decision' = [decision EXCEPT !.hops = @ + 1, !.url = target]
    /\ world' = [world EXCEPT !.requests = Append(@, target)]
    /\ UNCHANGED <<config, tools, inv, auditLog, nextId>>

\* fetch resolves with the response: clearTimeout, the content-length check,
\* then the reader of the body
FetchResponse(contentLength, hasBody) ==
    /\ decision.pc = "fetching"
    /\ LET frame == [decision EXCEPT !.timer = "cleared", !.contentLength = contentLength]
       IN decision' =
            IF ContentLengthExceeds(contentLength, HttpCfg)
            THEN fetchThrow(frame, fetchCatch(GatewayErr("MAX_BYTES_EXCEEDED",
                                                          "Response size exceeds maximum")))
            ELSE IF ~hasBody
                THEN fetchThrow(frame, fetchCatch(GatewayErr("CONNECTOR_ERROR", "No response body")))
            ELSE [frame EXCEPT !.pc = "reading"]
    /\ UNCHANGED <<config, tools, inv, auditLog, nextId, world>>

\* fetch rejects for a reason of the network
FetchFails ==
    /\ decision.pc = "fetching"
    /\ decision' = fetchThrow(decision, fetchCatch(PlainErr("fetch failed")))
    /\ UNCHANGED <<config, tools, inv, auditLog, nextId, world>>

\* reader.read() resolves and the loop takes one turn; reader.cancel() when
\* the loop throws
ReaderRead(done, len) ==
    /\ decision.pc = "reading"
    /\ done \/ Len(decision.chunks) < MaxChunks
    /\ decision' = readLoop(decision, done, len, HttpCfg)
    /\ world' = [world EXCEPT !.bodyRead = IF done THEN @ ELSE @ + len,
                              !.cancelled = decision'.threw]
    /\ UNCHANGED <<config, tools, inv, auditLog, nextId>>

\* a millisecond passes; a timer that is set and due runs controller.abort(),
\* and a pending fetch rejects with AbortError
Tick ==
    /\ world.now < MaxClock
    /\ decision.pc # "done"
    /\ LET due == decision.timer = "set" /\ world.now + 1 >= decision.deadline
       IN /\ world' = [world EXCEPT !.now = @ + 1, !.aborted = @ \/ due]
          /\ decision' =
               IF ~due THEN decision
               ELSE IF decision.pc = "fetching"
                   THEN fetchThrow([decision EXCEPT !.timer = "fired"],
                                   fetchCatch(PlainErr("AbortError")))
               ELSE [decision EXCEPT !.timer = "fired"]
    /\ UNCHANGED <<config, tools, inv, auditLog, nextId>>

NextStream ==
    \/ \E url \in StreamUrls : FetchSend(url)
    \/ \E target \in StreamUrls : FetchRedirect(target)
    \/ \E contentLength \in {NoHeader, NanHeader} \cup {NumHeader(n) : n \in {0, 2, 4}},
          hasBody \in BOOLEAN : FetchResponse(contentLength, hasBody)
    \/ FetchFails
    \/ \E done \in BOOLEAN, len \in 0..MaxChunkLen : ReaderRead(done, len)
    \/ Tick

SpecStream == InitStream /\ [][NextStream]_vars

(* C21: one timeout_ms deadline covers the whole request of web.fetch, from
   sending it through the end of the body read: when the deadline has passed
   before the last body chunk has been read, the request was aborted and the
   handler fails with TIMEOUT. *)
C21_DeadlineCoversBody ==
    (decision.pc = "done" /\ decision.timer # "none"
        /\ world.now >= decision.deadline)
    => /\ world.aborted
       /\ decision.threw
       /\ errorToCode(decision.err) = "TIMEOUT"

(* C22: web.fetch never returns a body larger than max_response_bytes. A
   response whose declared content-length exceeds the cap fails with
   MAX_BYTES_EXCEEDED before any body chunk is read; otherwise the bytes read
   are counted chunk by chunk and the read is cancelled with
   MAX_BYTES_EXCEEDED as soon as the total exceeds the cap; on success the
   returned size is the number of body bytes read. *)
C22_ResponseSizeCap ==
    /\ (decision.pc = "done" /\ ~decision.threw /\ decision.timer # "none")
       => /\ decision.result.size = world.bodyRead
          /\ decision.result.size <= HttpCfg.max_response_bytes
    /\ (decision.pc \in {"reading", "done"}
            /\ ContentLengthExceeds(decision.contentLength, HttpCfg))
       => /\ decision.threw
          /\ errorToCode(decision.err) = "MAX_BYTES_EXCEEDED"
          /\ world.bodyRead = 0
    /\ (decision.timer # "none" /\ world.bodyRead > HttpCfg.max_response_bytes)
       => /\ decision.pc = "done"
          /\ decision.threw
          /\ errorToCode(decision.err) = "MAX_BYTES_EXCEEDED"
          /\ world.cancelled

\* two chunks that each fit were read and the second took the total over the cap
C22_Witness ==
    /\ decision.pc = "done"
    /\ decision.threw
    /\ errorToCode(decision.err) = "MAX_BYTES_EXCEEDED"
    /\ Len(decision.chunks) = 1
    /\ decision.chunks[1] <= HttpCfg.max_response_bytes
    /\ world.bodyRead - decision.chunks[1] <= HttpCfg.max_response_bytes
    /\ world.bodyRead > HttpCfg.max_response_bytes
    /\ world.cancelled

(* C30: web.fetch sends no request to, and returns no body content from, a
   host that fails URL gating (a blocked loopback or private host, a denied
   domain, a host not in allowed_domains), the hosts reached by following
   redirects from a URL that passed gating included. *)
C30_NoRequestPastGating ==
    /\ \A n \in 1..Len(world.requests) : ~validateUrl(world.requests[n], HttpCfg).threw
    /\ (decision.pc = "done" /\ ~decision.threw /\ decision.timer # "none")
       => ~validateUrl(decision.result.url, HttpCfg).threw

(* C29: in the domain matching of web.fetch denial is at least as broad as
   allowance for every entry form: a hostname that an entry, plain or with
   the *. prefix, matches when it is in allowed_domains is rejected when the
   same entry is in denied_domains, so an entry in both lists lets no
   hostname through. *)
C29_DenialAsBroadAsAllowance ==
    (decision.called /\ decision.op = "web.fetch" /\ decision.url.valid) =>
        /\ \A entry \in HttpCfg.allowed_domains \cup HttpCfg.denied_domains :
               isDomainAllowed(decision.url, {entry}, {})
                   => ~isDomainAllowed(decision.url, {entry}, {entry})
        /\ \A entry \in HttpCfg.allowed_domains \cap HttpCfg.denied_domains :
               isDomainAllowed(decision.url, {entry}, {}) => ~decision.domainAllowed

\* how many directory levels an entry lies below the requested directory
LevelBelow(entry, path) == Len(SegmentsOf(entry)) - Len(SegmentsOf(resolve(path)))

(* C26: fs.listDir with recursive=false returns only the direct children of
   the requested directory; with recursive=true the walk ends and returns no
   entry more than max_depth directory levels below the requested directory,
   the direct children being level 1. *)
C26_ListDirDepth ==
    (decision.called /\ decision.op = "fs.listDir" /\ ~decision.threw) =>
        \A entry \in decision.entries :
            /\ Within(entry, resolve(decision.path))
            /\ LevelBelow(entry, decision.path) >= 1
            /\ ~decision.recursive => LevelBelow(entry, decision.path) = 1
            /\ decision.recursive => LevelBelow(entry, decision.path) <= decision.maxDepth

----------------------------------------------------------------------------
(* Loading a configuration file: the policy section as it is written and as
   the schema hands it to the policy engine *)

\* the configuration file on disk
ConfigFileWorld(raw) ==
    [links |-> {}, reads |-> {}, requests |-> <<>>, queries |-> <<>>, file |-> raw]

\* loadConfig: GatewayConfigSchema.parse of the file, for the files it accepts
InitLoad ==
    /\ \E raw \in {r \in RawPolicyConfigs : PolicyConfigSchema(r).success} :
          /\ world = ConfigFileWorld(raw)
          /\ config = GatewayConfig(PolicyConfigSchema(raw).data, TRUE)
    /\ tools = RegisteredTools
    /\ inv = [i \in Inv |-> IdleSlot]
    /\ auditLog = <<>>
    /\ nextId = 1
    /\ decision = NoDecision

SpecLoad == InitLoad /\ [][NextEnvelope]_vars

(* C27: a per_tool entry that omits allow, such as one that only overrides
   timeout_ms or max_bytes, still has allow unset after the configuration has
   passed the configuration schema, so for a tool in allow_tools such an
   entry changes only the envelope and the tool stays allowed. *)
C27_OmittedAllowStaysUnset ==
    (/\ decision.called
     /\ decision.tool \in DOMAIN world.file.per_tool
     /\ world.file.per_tool[decision.tool].allow = "unset")
    => /\ TheToolPolicy.allow = "unset"
       /\ (decision.tool \in Pol.allow_tools /\ decision.tool \notin Pol.deny_tools)
              => /\ decision.d.allowed
                 /\ ~decision.enforced.threw
                 /\ decision.enforced.value = ExpectedEnvelope

----------------------------------------------------------------------------
(* C28: for every failed invocation the error_code of its audit event is the
   error code returned to the caller: TOOL_NOT_FOUND for an unknown tool,
   VALIDATION_ERROR for a schema failure, POLICY_DENIED for a policy denial,
   and the code of the handler or the harness otherwise. *)
C28_AuditCodeIsReturnedCode ==
    config.audit.enabled =>
        \A i \in Inv :
            (Done(i) /\ ~inv[i].ret.success) =>
                /\ EventsOf(i) # {}
                /\ \A n \in EventsOf(i) :
                      /\ auditLog[n].has_error_code
                      /\ auditLog[n].error_code = inv[i].ret.code

----------------------------------------------------------------------------
(* The audit file sink: initializeFile at construction, writeEvent for every
   event, and the invocation pipeline on top of a sink that may fail *)

\* a line console.error writes
S_initFailed == "[audit] Failed to initialize audit file"
S_writeFailed == "[audit] Failed to write to audit file"

(* initializeFile: nothing to do without a file_path; otherwise the parent
   directory is created when it is missing, and an error of mkdirSync is
   reported on the error stream and swallowed. *)
initializeFile(audit, dirExists, mkdirOk) ==
    IF audit.file_path = "" THEN [fileInitialized |-> FALSE, stderr |-> <<>>, threw |-> FALSE]
    ELSE IF dirExists \/ mkdirOk
        THEN [fileInitialized |-> TRUE, stderr |-> <<>>, threw |-> FALSE]
    ELSE [fileInitialized |-> FALSE, stderr |-> <<S_initFailed>>, threw |-> FALSE]

\* writeEvent without the try around appendFileSync
writeEvent_Unguarded(audit, fileInitialized, event, appendOk) ==
    LET toFile == audit.file_path # "" /\ fileInitialized
    IN [stdout |-> <<event>>,
        file |-> IF toFile /\ appendOk THEN <<event>> ELSE <<>>,
        stderr |-> <<>>,
        threw |-> toFile /\ ~appendOk]

(* writeEvent: the event goes to the process log with the [audit] prefix,
   then to the file when there is one and it was initialized; an error of
   appendFileSync is reported on the error stream and swallowed. *)
writeEvent(audit, fileInitialized, event, appendOk) ==
    LET toFile == audit.file_path # "" /\ fileInitialized
    IN [stdout |-> <<event>>,
        file |-> IF toFile /\ appendOk THEN <<event>> ELSE <<>>,
        stderr |-> IF toFile /\ ~appendOk THEN <<S_writeFailed>> ELSE <<>>,
        threw |-> FALSE]

\* a call of invokeTool whose promise rejected
Rejected ==
    [returned |-> TRUE, success |-> FALSE, hasResult |-> FALSE, result |-> Undefined,
     hasError |-> FALSE, code |-> "", message |-> "", requestId |-> 0]

\* a gateway configuration with or without an audit file
SinkGatewayConfig(filePath) ==
    [policy |-> PolicyConfig(TRUE, {"fs.readFile"}, {}, NoPerTool, 4),
     audit |-> [enabled |-> TRUE, file_path |-> filePath], actor |-> "local-user"]

\* the logger's fileInitialized flag and, for each call, the value the
\* pipeline returns when every write succeeds
SinkState(fileInitialized) ==
    [called |-> FALSE, fileInitialized |-> fileInitialized,
     expected |-> [i \in Inv |-> NoReturn]]

\* the audit file and the error stream
SinkWorld(stderr) ==
    [links |-> {}, reads |-> {}, requests |-> <<>>, queries |-> <<>>,
     file |-> <<>>, stderr |-> stderr]

\* new MCPGateway(config): the AuditLogger's constructor runs initializeFile
InitSink ==
    /\ config \in {SinkGatewayConfig(""), SinkGatewayConfig("audit.jsonl")}
    /\ \E dirExists \in BOOLEAN, mkdirOk \in BOOLEAN :
          LET f == initializeFile(config.audit, dirExists, mkdirOk)
          IN /\ decision = SinkState(f.fileInitialized)
             /\ world = SinkWorld(f.stderr)
    /\ tools = RegisteredTools
    /\ inv = [i \in Inv |-> IdleSlot]
    /\ auditLog = <<>>
    /\ nextId = 1

(* The events a step of the pipeline logs are handed to writeEvent. An error
   thrown there is thrown inside invokeTool: from the try block it reaches the
   catch block, whose own logError writes to the same sink, and the call
   rejects. *)
SinkStep(i, r, appendOk) ==
    LET w == IF r.events = <<>>
                THEN [stdout |-> <<>>, file |-> <<>>, stderr |-> <<>>, threw |-> FALSE]
                ELSE writeEvent(config.audit, decision.fileInitialized, r.events[1],
                                appendOk)
    IN /\ inv' = [inv EXCEPT ![i] = IF w.threw THEN [r.slot EXCEPT !.ret = Rejected]
                                    ELSE r.slot]
       /\ auditLog' = auditLog \o w.stdout
       /\ world' = [world EXCEPT !.file = @ \o w.file, !.stderr = @ \o w.stderr]
       /\ decision' = [decision EXCEPT !.called = TRUE, !.expected[i] = r.slot.ret]

\* a call of invokeTool up to its await, or to its return when it is refused
SinkInvoke(i, toolName, args, appendOk) ==
    /\ inv[i].pc = "idle"
    /\ \A j \in Inv : j < i => inv[j].pc # "idle"
    /\ SinkStep(i, stageLookup(config, tools,
                       [IdleSlot EXCEPT !.toolName = toolName, !.args = args,
                                        !.requestId = nextId]),
                appendOk)
    /\ nextId' = nextId + 1
    /\ UNCHANGED <<config, tools>>

\* the handler's promise settles
SinkHandlerSettle(i, outcome, appendOk) ==
    /\ inv[i].handler = "running"
    /\ SinkStep(i, onHandlerSettled(config, inv[i], outcome), appendOk)
    /\ UNCHANGED <<config, tools, nextId>>

\* the deadline timer fires
SinkTimerFire(i, appendOk) ==
    /\ inv[i].timer = "armed"
    /\ SinkStep(i, onTimeout(config, inv[i]), appendOk)
    /\ UNCHANGED <<config, tools, nextId>>

\* outcomes of the handler: a result, a gateway error, a plain error
SinkOutcomes ==
    { Resolve(StrResult(<<>>)), Reject(GatewayErr("CONNECTOR_ERROR", "handler error")),
      Reject(PlainErr("Handler failed")) }

NextSink ==
    \/ \E i \in Inv, t \in InvocableTools, a \in HarnessArgs, appendOk \in BOOLEAN :
          SinkInvoke(i, t, a, appendOk)
    \/ \E i \in Inv, o \in SinkOutcomes, appendOk \in BOOLEAN :
          SinkHandlerSettle(i, o, appendOk)
    \/ \E i \in Inv, appendOk \in BOOLEAN : SinkTimerFire(i, appendOk)

SpecSink == InitSink /\ [][NextSink]_vars

(* C25: a failure of the audit file sink, at start-up when the parent
   directory cannot be created or at an append, never changes the result of
   an invocation: invokeTool returns the success or failure it returns with a
   working sink, and the event is still written to the process log. *)
C25_SinkFailureSwallowed ==
    \A i \in Inv :
        /\ inv[i].ret = decision.expected[i]
        /\ Done(i) =>
              /\ inv[i].ret.returned
              /\ inv[i].ret.requestId = inv[i].requestId
              /\ Cardinality(EventsOf(i)) = 1
        /\ \A n \in 1..Len(world.file) :
              \E m \in 1..Len(auditLog) : auditLog[m] = world.file[n]

\* the file was initialized, one call succeeded and one failed, and neither
\* event reached the file: both appends failed and were reported
C25_Witness ==
    /\ decision.fileInitialized
    /\ world.file = <<>>
    /\ Len(world.stderr) = 2
    /\ \E i, j \in Inv :
          /\ Done(i) /\ inv[i].ret.success /\ EventsOf(i) # {}
          /\ Done(j) /\ ~inv[j].ret.success /\ inv[j].ret.hasError /\ EventsOf(j) # {}

----------------------------------------------------------------------------
(* Handlers at work: the I/O steps a handler takes while its promise is
   pending. invokeTool calls tool.handler(validation.data) and nothing else
   is handed to the handler. *)

\* most I/O steps the handlers take together
MaxIoSteps == 2

\* the I/O steps taken so far: whose handler took the step, and what
\* invokeTool had returned for that call by then
IoWorld == [links |-> {}, reads |-> {}, requests |-> <<>>, queries |-> <<>>, io |-> <<>>]

InitCancel ==
    /\ config = GatewayConfig(PolicyConfig(TRUE, {"fs.readFile"}, {}, NoPerTool, 4), TRUE)
    /\ tools = RegisteredTools
    /\ inv = [i \in Inv |-> IdleSlot]
    /\ auditLog = <<>>
    /\ nextId = 1
    /\ decision = NoDecision
    /\ world = IoWorld

\* a handler that has not settled takes one I/O step: a file read, an HTTP
\* request or body read, a database statement
HandlerIo(i) ==
    /\ inv[i].handler = "running"
    /\ Len(world.io) < MaxIoSteps
    /\ world' = [world EXCEPT !.io = Append(@, [inv |-> i,
                                                returned |-> inv[i].ret.returned,
                                                code |-> inv[i].ret.code])]
    /\ UNCHANGED <<config, tools, inv, auditLog, nextId, decision>>

NextCancel ==
    \/ \E i \in Inv, t \in InvocableTools, a \in HarnessArgs : Invoke(i, t, a)
    \/ \E i \in Inv, o \in SinkOutcomes : HandlerSettle(i, o)
    \/ \E i \in Inv : TimerFire(i)
    \/ \E i \in Inv : HandlerIo(i)

SpecCancel == InitCancel /\ [][NextCancel]_vars

(* C24: the harness calls the handler with a cancellation signal tied to the
   envelope deadline and raises it when the deadline expires, so the
   handler's I/O in flight is cancelled: once invokeTool has returned TIMEOUT
   for a call, its handler takes no further I/O step. *)
C24_NoIoAfterTimeout ==
    \A n \in 1..Len(world.io) :
        ~(world.io[n].returned /\ world.io[n].code = "TIMEOUT")

----------------------------------------------------------------------------
(* PostgreSQL connector: the connection pool under concurrent db.query and
   db.schema handlers. The handlers differ only before pool.connect()
   (db.query validates the SQL text first) and in the error they throw; from
   pool.connect() on both run SET statement_timeout, one statement, and
   client.release() in the finally block. Handlers are told apart only by
   where they stand, so the pending handlers are kept as a bag of frames. *)

\* createPool: max: 5
PoolMax == 5
\* handlers called concurrently
NumDb == 6

\* the frame of one handler: where it stands, whether the harness has returned
\* TIMEOUT for its invocation, the connections it was given and has released
DbFrame(pc, timedOut, acquired, releases) ==
    [pc |-> pc, timedOut |-> timedOut, acquired |-> acquired, releases |-> releases]

DbIdle == DbFrame("idle", FALSE, 0, 0)

\* one handler moves from frame s to frame t
DbMove(handlers, s, t) == (handlers (-) SetToBag({s})) (+) SetToBag({t})

\* the inner try left without client.release() when a statement failed
dbFinally_SuccessOnly(h, failed) ==
    IF failed THEN [h EXCEPT !.pc = "settled"]
    ELSE [h EXCEPT !.pc = "settled", !.releases = @ + 1]

\* finally { client.release(); }: whichever way the inner try is left
dbFinally(h, failed) == [h EXCEPT !.pc = "settled", !.releases = @ + 1]

\* the pool: connections checked out now and at most so far, and the calls of
\* client.release()
PoolWorld ==
    [links |-> {}, reads |-> {}, requests |-> <<>>, queries |-> <<>>,
     pool |-> [checkedOut |-> 0, peak |-> 0, released |-> 0]]

InitPool ==
    /\ config \in { GatewayConfig(PolicyConfig(TRUE, {"db.query", "db.schema"}, {},
                                               NoPerTool, 4), TRUE) }
    /\ tools = <<Tool("db.query", "Execute a read-only SQL query"),
                 Tool("db.schema", "Get database schema information")>>
    /\ inv = [i \in Inv |-> IdleSlot]
    /\ auditLog = <<>>
    /\ nextId = 1
    /\ decision = [called |-> FALSE, handlers |-> (DbIdle :> NumDb)]
    /\ world = PoolWorld

Handlers == decision.handlers

\* the frames some handler stands in
DbFrames == BagToSet(Handlers)

DbStep(s, t) ==
    decision' = [decision EXCEPT !.called = TRUE, !.handlers = DbMove(@, s, t)]

\* what the exit of the inner try does to the pool: one release per call of
\* client.release()
PoolAfter(s, t) ==
    [world EXCEPT !.pool.checkedOut = @ - (t.releases - s.releases),
                  !.pool.released = @ + (t.releases - s.releases)]

\* a handler is called: db.query with a text validateReadOnlyQuery refuses
\* throws before pool.connect(); otherwise the handler awaits pool.connect()
DbInvoke(tool, sqlAccepted) ==
    /\ DbIdle \in DbFrames
    /\ DbStep(DbIdle, IF tool = "db.query" /\ ~sqlAccepted
                         THEN [DbIdle EXCEPT !.pc = "settled"]
                         ELSE [DbIdle EXCEPT !.pc = "connecting"])
    /\ UNCHANGED <<config, tools, inv, auditLog, nextId, world>>

\* pool.connect() resolves with a client: the pool hands out at most max
\* connections
DbConnect(s) ==
    /\ s \in DbFrames /\ s.pc = "connecting"
    /\ world.pool.checkedOut < PoolMax
    /\ DbStep(s, [s EXCEPT !.pc = "set", !.acquired = @ + 1])
    /\ world' = [world EXCEPT !.pool.checkedOut = @ + 1,
                              !.pool.peak = IF world.pool.checkedOut + 1 > @
                                               THEN world.pool.checkedOut + 1 ELSE @]
    /\ UNCHANGED <<config, tools, inv, auditLog, nextId>>

\* pool.connect() rejects (connectionTimeoutMillis, server down): no client
DbConnectFail(s) ==
    /\ s \in DbFrames /\ s.pc = "connecting"
    /\ DbStep(s, [s EXCEPT !.pc = "settled"])
    /\ UNCHANGED <<config, tools, inv, auditLog, nextId, world>>

\* SET statement_timeout succeeds or fails
DbSetTimeout(s, ok) ==
    /\ s \in DbFrames /\ s.pc = "set"
    /\ LET t == IF ok THEN [s EXCEPT !.pc = "query"] ELSE dbFinally(s, TRUE)
       IN DbStep(s, t) /\ world' = PoolAfter(s, t)
    /\ UNCHANGED <<config, tools, inv, auditLog, nextId>>

\* the statement returns rows, fails, or is cancelled by statement_timeout
\* (code 57014)
DbStatement(s, outcome) ==
    /\ s \in DbFrames /\ s.pc = "query"
    /\ LET t == dbFinally(s, outcome # "rows")
       IN DbStep(s, t) /\ world' = PoolAfter(s, t)
    /\ UNCHANGED <<config, tools, inv, auditLog, nextId>>

\* the harness deadline of the invocation expires: invokeTool returns TIMEOUT
\* and the handler goes on
DbHarnessTimeout(s) ==
    /\ s \in DbFrames /\ s.pc \in {"connecting", "set", "query"} /\ ~s.timedOut
    /\ DbStep(s, [s EXCEPT !.timedOut = TRUE])
    /\ UNCHANGED <<config, tools, inv, auditLog, nextId, world>>

NextPool ==
    \/ \E tool \in {"db.query", "db.schema"}, sqlAccepted \in BOOLEAN :
          DbInvoke(tool, sqlAccepted)
    \/ \E s \in DbFrames : DbConnect(s)
    \/ \E s \in DbFrames : DbConnectFail(s)
    \/ \E s \in DbFrames, ok \in BOOLEAN : DbSetTimeout(s, ok)
    \/ \E s \in DbFrames, outcome \in {"rows", "error", "57014"} : DbStatement(s, outcome)
    \/ \E s \in DbFrames : DbHarnessTimeout(s)

SpecPool == InitPool /\ [][NextPool]_vars

\* the handlers that hold a connection
DbHolders ==
    BagCardinality([s \in {f \in DbFrames : f.acquired > f.releases} |->
                       CopiesIn(s, Handlers)])

(* C23: in db.query and db.schema every connection acquired from the pool is
   released exactly once on every exit path, so however the concurrent
   handlers interleave the connections checked out never exceed the pool
   maximum of 5, and none is checked out once all handlers have settled, the
   handlers whose invocation has already returned TIMEOUT included. *)
C23_ConnectionsReleased ==
    /\ \A s \in DbFrames :
          /\ s.releases <= s.acquired
          /\ s.pc = "settled" => s.releases = s.acquired
          /\ s.pc \in {"set", "query"} => (s.acquired = 1 /\ s.releases = 0)
    /\ world.pool.checkedOut = DbHolders
    /\ world.pool.checkedOut >= 0
    /\ world.pool.checkedOut <= PoolMax
    /\ (\A s \in DbFrames : s.pc = "settled") => world.pool.checkedOut = 0

\* every handler has settled after the pool was full, one of them after its
\* invocation had timed out, and every connection is back
C23_Witness ==
    /\ \A s \in DbFrames : s.pc = "settled"
    /\ BagCardinality(Handlers) > PoolMax
    /\ world.pool.peak = PoolMax
    /\ world.pool.released > PoolMax
    /\ world.pool.checkedOut = 0
    /\ \E s \in DbFrames : s.timedOut /\ s.acquired = 1 /\ s.releases = 1

====
